---- MODULE Spec2Model ----
(***************************************************************************)
(* Model of the InviteCode-Dashboard backend (backend/app).                *)
(*                                                                         *)
(* Specification Spec: POST /credits/assign (api/v1/credits.py) running    *)
(* credit_service.assign_credits and email_service.send_credits_email for  *)
(* several requests whose store calls interleave.                          *)
(* Specification SpecBalances: credit_service.get_credit_balances applied  *)
(* to stores drawn from bounded sets.                                      *)
(* Specification SpecMeta: the three derivations of a name from an         *)
(* identity's user_metadata (credit_service.py), applied to every map of   *)
(* MetadataInputs.                                                         *)
(* Specification SpecProfiles (SpecProfilesFair with weak fairness):       *)
(* user_service.get_user_profiles reading the identity directory page by   *)
(* page, every directory call answering or raising.                        *)
(* Specification SpecPurchases: credit_service.get_credit_purchases, the   *)
(* same enumeration inside one try block.                                  *)
(* Specification SpecUsers: user_service.create_user and delete_user       *)
(* called one after the other, every store call answering or failing.      *)
(* Specification SpecAuth: core/auth.py verify_token on a bearer token.    *)
(* Specification SpecGenerate: invite_code_service.generate_invite_codes.  *)
(* Specification SpecArchive: archive_invite_code, unarchive_invite_code   *)
(* and bulk_archive_used_codes called one after the other.                 *)
(* Specification SpecWaitlist: POST /waitlist/archive (api/v1/waitlist.py). *)
(* Specification SpecBulkEmail: email_service.send_bulk_email, every       *)
(* recipient's send succeeding or failing.                                 *)
(* Specification SpecParse: core/email_parser.py parse_email_text applied  *)
(* to the texts of EmailTexts.                                             *)
(* Specification SpecBulkDelete: user_service.bulk_delete_users, every     *)
(* store call answering or raising.                                        *)
(*                                                                         *)
(* Conventions.  A Python value that may be None is a sequence of length   *)
(* 0 (None) or 1 (the value).  Dollar amounts are whole numbers (the      *)
(* float arithmetic of the code is exact on them).  datetime.now() is a    *)
(* logical clock that ticks once per request.  The `notes` field of a      *)
(* request is copied verbatim into the metadata and is left out.           *)
(***************************************************************************)
EXTENDS Integers, Sequences, FiniteSets, TLC

(* ------------------------------ bounds -------------------------------- *)
NumCalls == 2
MaxAmount == 2

Calls == 1..NumCalls
\* identity ids a request may carry; "" is the empty identity id
UserIds == {"", "u1"}
\* credits_to_add as sent by a client: negative, zero and positive values
Amounts == (0 - 1)..MaxAmount

VARIABLES
    credit_balance,   \* table credit_balance: user_id -> row (unique user_id)
    profile_marked,   \* user_profiles rows whose metadata has credits_assigned
    clock,            \* datetime.now()
    pc,               \* per request: position in the handler
    req,              \* per request: the AssignCreditsRequest body
    now,              \* per request: local `now` of assign_credits
    existing,         \* per request: existing_response.data
    balance,          \* per request: the row assign_credits returned
    email_result,     \* per request: how send_credits_email ended
    response,         \* per request: the HTTP response
    history,          \* per identity: the writes applied, in order
    overlapped        \* identities on which two read-write windows overlapped

assignVars == <<credit_balance, profile_marked, clock, pc, req, now, existing,
                balance, email_result, response, history, overlapped>>

VARIABLES
    credit_purchases, \* table credit_purchases, in the order the store returns it
    auth_users,       \* identity directory: id -> [email, user_metadata]
    user_profiles,    \* table user_profiles: user_id -> [preferred_name, full_name]
    waitlist,         \* table waitlist: rows [email, full_name]
    lookup_fails,     \* the store calls of get_credit_balances that raise
    gcb_user_id,      \* get_credit_balances: the user_id argument
    gcb_pc,           \* get_credit_balances: "idle", "done" or "failed"
    gcb_result        \* get_credit_balances: the list returned

balVars == <<credit_purchases, auth_users, user_profiles, waitlist,
             lookup_fails, gcb_user_id, gcb_pc, gcb_result>>

VARIABLES
    user_metadata,    \* a user_metadata map of an identity
    derived           \* the name a function derived from it, and which function

metaVars == <<user_metadata, derived>>

VARIABLES
    directory,        \* identity directory, in the order list_users returns it
    op,               \* the read operation running: its function name
    op_pc,            \* its position
    op_status,        \* get_credit_purchases: the status argument
    page,             \* local `page` of the enumeration loop
    all_auth_users,   \* local `all_auth_users`
    list_calls,       \* the list_users calls made so far, with their outcome
    resolved,         \* locals user_id_to_email and user_id_to_name
    op_result         \* the list returned

pageVars == <<directory, op, op_pc, op_status, page, all_auth_users,
              list_calls, resolved, op_result>>

VARIABLES
    uop,              \* the user operation running: its function name
    upc,              \* its position
    cu_email,         \* create_user: the email argument
    cu_user_id,       \* create_user: auth_response.user.id
    du_user_id,       \* delete_user: the user_id argument (0: the empty string)
    profile_error,    \* create_user: the profile step that failed
    store_calls,      \* the store calls the running operation has made
    uresponse,        \* how the operation ended
    next_id,          \* the id the directory gives to the next identity
    cascade_delete,   \* whether deleting an identity deletes its profile row
    auth_error,       \* create_user: the failure of auth.admin.create_user
    last_call         \* the operation that ended last, with the stores it left

userVars == <<uop, upc, cu_email, cu_user_id, du_user_id, profile_error,
              store_calls, uresponse, next_id, cascade_delete, auth_error,
              last_call>>

VARIABLES
    sessions,         \* identity store: bearer token -> the user it resolves to
    token,            \* verify_token: credentials.credentials
    auth_pc,          \* verify_token: its position
    auth_exc,         \* verify_token: the exceptions raised, each in the context
                      \* of the one before it; the last is the one in flight
    auth_result       \* verify_token: the HTTP status and the dict returned

authVars == <<sessions, token, auth_pc, auth_exc, auth_result>>

VARIABLES
    invite_codes,     \* table invite_codes, in insertion order (code is unique)
    ic_pc,            \* the invite code operation running: its position
    ic_arg,           \* its arguments
    ic_codes,         \* generate_invite_codes: local `codes`
    ic_code_data,     \* generate_invite_codes: local `code_data`
    ic_before,        \* the table when the operation was called
    ic_result,        \* how the operation ended and what it returned
    ic_log            \* the archive operations that ended, oldest first

inviteVars == <<invite_codes, ic_pc, ic_arg, ic_codes, ic_code_data, ic_before,
                ic_result, ic_log>>

VARIABLES
    waitlist_users,   \* table waitlist: id, is_notified, is_archived per row
    wl_call           \* POST /waitlist/archive: the request that ended last

waitVars == <<waitlist_users, wl_call>>

VARIABLES
    be_selected,      \* send_bulk_email: selected_user_ids
    be_directory,     \* identity directory: user id -> email, as list_users gives it
    be_pc,            \* send_bulk_email: its position
    be_profiles,      \* profiles_response.data
    be_emails,        \* local user_id_to_email
    be_index,         \* the loop: profiles handled so far
    be_counts,        \* locals success_count, error_count and errors
    be_attempts,      \* per profile handled, in order: what happened
    be_result         \* the dict returned, or the failure

mailVars == <<be_selected, be_directory, be_pc, be_profiles, be_emails, be_index,
              be_counts, be_attempts, be_result>>

VARIABLES
    pe_text,          \* parse_email_text: the text_content argument
    pe_parts,         \* the paragraphs the text was written from, if it was
    pe_pc,            \* parse_email_text: "idle" or "done"
    pe_result         \* the dict returned

parseVars == <<pe_text, pe_parts, pe_pc, pe_result>>

VARIABLES
    bd_user_ids,      \* bulk_delete_users: the user_ids argument
    bd_pc,            \* bulk_delete_users: its position
    bd_index,         \* the loop: ids handled so far
    bd_calls,         \* the store calls made, in order
    bd_before,        \* the directory and the profiles when it was called
    bd_result         \* the count returned, or the failure

bulkVars == <<bd_user_ids, bd_pc, bd_index, bd_calls, bd_before, bd_result>>

moreVars == <<authVars, inviteVars, waitVars, mailVars, parseVars, bulkVars>>

svcVars == <<pageVars, userVars, moreVars>>

vars == <<assignVars, balVars, metaVars, svcVars>>

None == <<>>
Some(x) == <<x>>

\* the state of the parts a specification does not exercise
IdleAssign ==
    /\ profile_marked = {}
    /\ clock = 0
    /\ pc = [p \in Calls |-> "idle"]
    /\ req = [p \in Calls |-> [user_id |-> "", credits_to_add |-> 0]]
    /\ now = [p \in Calls |-> 0]
    /\ existing = [p \in Calls |-> None]
    /\ balance = [p \in Calls |-> None]
    /\ email_result = [p \in Calls |-> "none"]
    /\ response = [p \in Calls |-> [status |-> 0, success |-> FALSE, data |-> None]]
    /\ history = [u \in UserIds |-> <<>>]
    /\ overlapped = {}
IdleBalances ==
    /\ credit_purchases = <<>>
    /\ auth_users = <<>>
    /\ user_profiles = <<>>
    /\ waitlist = <<>>
    /\ lookup_fails = {}
    /\ gcb_user_id = None
    /\ gcb_pc = "idle"
    /\ gcb_result = <<>>
IdleMeta ==
    /\ user_metadata = <<>>
    /\ derived = [place |-> "none", name |-> <<>>]
IdlePages ==
    /\ directory = <<>>
    /\ op = "none"
    /\ op_pc = "idle"
    /\ op_status = None
    /\ page = 0
    /\ all_auth_users = <<>>
    /\ list_calls = <<>>
    /\ resolved = [user_id_to_email |-> <<>>, user_id_to_name |-> <<>>]
    /\ op_result = <<>>
IdleUsers ==
    /\ uop = "none"
    /\ upc = "idle"
    /\ cu_email = None
    /\ cu_user_id = None
    /\ du_user_id = 0
    /\ profile_error = "none"
    /\ store_calls = <<>>
    /\ uresponse = [status |-> 0, detail |-> "none"]
    /\ next_id = 1
    /\ cascade_delete = FALSE
    /\ auth_error = None
    /\ last_call = None
IdleAuth ==
    /\ sessions = <<>>
    /\ token = ""
    /\ auth_pc = "idle"
    /\ auth_exc = None
    /\ auth_result = [status |-> 0, user |-> None]
IdleInvite ==
    /\ invite_codes = <<>>
    /\ ic_pc = "idle"
    /\ ic_arg = [count |-> 0, max_uses |-> 0, expires_in_days |-> 0]
    /\ ic_codes = <<>>
    /\ ic_code_data = <<>>
    /\ ic_before = <<>>
    /\ ic_result = [status |-> "none", codes |-> <<>>]
    /\ ic_log = <<>>
IdleWait ==
    /\ waitlist_users = <<>>
    /\ wl_call = None
IdleMail ==
    /\ be_selected = None
    /\ be_directory = <<>>
    /\ be_pc = "idle"
    /\ be_profiles = <<>>
    /\ be_emails = <<>>
    /\ be_index = 0
    /\ be_counts = [success_count |-> 0, error_count |-> 0, errors |-> <<>>]
    /\ be_attempts = <<>>
    /\ be_result = [status |-> "none", total |-> 0, success_count |-> 0,
                    error_count |-> 0, errors |-> None]
IdleParse ==
    /\ pe_text = ""
    /\ pe_parts = None
    /\ pe_pc = "idle"
    /\ pe_result = [status |-> "none", greeting |-> "", paragraphs |-> <<>>,
                    signoff |-> ""]
IdleBulk ==
    /\ bd_user_ids = <<>>
    /\ bd_pc = "idle"
    /\ bd_index = 0
    /\ bd_calls = <<>>
    /\ bd_before = [directory |-> <<>>, user_profiles |-> <<>>]
    /\ bd_result = [status |-> "none", deleted_count |-> 0]
IdleMore ==
    /\ IdleAuth
    /\ IdleInvite
    /\ IdleWait
    /\ IdleMail
    /\ IdleParse
    /\ IdleBulk

(* --------------------------- assign_credits --------------------------- *)

\* AssignCreditsRequest: credits_to_add: float = Field(..., gt=0); user_id: str
ValidRequest_ge0(r) == r.credits_to_add >= 0
ValidRequest(r) == r.credits_to_add > 0

\* a credit_balance row that exists before any request of the model
InitialRow(uid) ==
    [user_id |-> uid, balance_dollars |-> 1, total_purchased |-> 2,
     total_used |-> 1, last_updated |-> 0,
     metadata |-> [initial_assignment |-> None, last_assignment |-> None]]

\* the row an update writes: the columns named in the update come from the
\* row read earlier (ex), the other columns stay as stored (cur)
UpdatedRow_atomic(cur, ex, amount, t) ==
    [cur EXCEPT !.balance_dollars = cur.balance_dollars + amount,
                !.total_purchased = cur.total_purchased + amount,
                !.last_updated = t,
                !.metadata = [cur.metadata EXCEPT !.last_assignment =
                                 Some([amount |-> amount, timestamp |-> t])]]
UpdatedRow_overwrite(cur, ex, amount, t) ==
    [cur EXCEPT !.balance_dollars = amount,
                !.total_purchased = amount,
                !.last_updated = t,
                !.metadata = [ex.metadata EXCEPT !.last_assignment =
                                 Some([amount |-> amount, timestamp |-> t])]]
UpdatedRow(cur, ex, amount, t) ==
    [cur EXCEPT !.balance_dollars = ex.balance_dollars + amount,
                !.total_purchased = ex.total_purchased + amount,
                !.last_updated = t,
                !.metadata = [ex.metadata EXCEPT !.last_assignment =
                                 Some([amount |-> amount, timestamp |-> t])]]

\* insert_data of the branch taken when no row was read
InsertData(uid, amount, t) ==
    [user_id |-> uid, balance_dollars |-> amount, total_purchased |-> amount,
     total_used |-> 0, last_updated |-> t,
     metadata |-> [initial_assignment |-> Some([amount |-> amount, timestamp |-> t]),
                   last_assignment |-> None]]

\* how the store answers the insert of a row for uid: user_id is unique in
\* credit_balance, so a second row for it is refused and the call raises
InsertOutcome_upsert(table, uid) == "inserted"
InsertOutcome(table, uid) == IF uid \in DOMAIN table THEN "raises" ELSE "inserted"

\* the ways send_credits_email ends: "sent" returns True, the others raise
EmailResults == {"sent", "no_user_or_email", "template_error", "smtp_error"}

\* what the endpoint does after send_credits_email ended with result r:
\* the try/except around the call logs a failure and goes on
AfterEmail_propagate(r) == IF r = "sent" THEN "respond" ELSE "raise"
AfterEmail(r) == "respond"

\* SuccessResponse of the endpoint
SuccessResponse(b) ==
    [status |-> 200, success |-> TRUE,
     data |-> Some([userId |-> b.user_id, balanceDollars |-> b.balance_dollars,
                    totalPurchased |-> b.total_purchased, totalUsed |-> b.total_used])]
ErrorResponse(code) == [status |-> code, success |-> FALSE, data |-> None]

InitAssign ==
    /\ credit_balance \in
         {[u \in S |-> InitialRow(u)] : S \in SUBSET (UserIds \ {""})}
    /\ IdleAssign
    /\ IdleBalances
    /\ IdleMeta
    /\ IdlePages
    /\ IdleUsers
    /\ IdleMore

\* FastAPI parses the body into AssignCreditsRequest; a body that fails the
\* model's validation is answered 422 and the endpoint function never runs.
\* Requests are numbered in order of arrival.
Receive(p) ==
    /\ pc[p] = "idle"
    /\ \A q \in Calls : q < p => pc[q] # "idle"
    /\ \E uid \in UserIds, amount \in Amounts :
         LET r == [user_id |-> uid, credits_to_add |-> amount] IN
         /\ req' = [req EXCEPT ![p] = r]
         /\ IF ValidRequest(r)
            THEN /\ pc' = [pc EXCEPT ![p] = "read"]
                 /\ clock' = clock + 1
                 /\ now' = [now EXCEPT ![p] = clock + 1]
                 /\ UNCHANGED response
            ELSE /\ pc' = [pc EXCEPT ![p] = "rejected"]
                 /\ response' = [response EXCEPT ![p] = ErrorResponse(422)]
                 /\ UNCHANGED <<clock, now>>
    /\ UNCHANGED <<credit_balance, profile_marked, existing, balance,
                   email_result, history, overlapped, balVars, metaVars, svcVars>>

\* existing_response = ...select("*").eq("user_id", user_id).maybe_single()
ReadBalance(p) ==
    /\ pc[p] = "read"
    /\ LET uid == req[p].user_id IN
       /\ existing' = [existing EXCEPT ![p] =
              IF uid \in DOMAIN credit_balance THEN Some(credit_balance[uid])
              ELSE None]
       /\ overlapped' =
              IF \E q \in Calls \ {p} : pc[q] = "write" /\ req[q].user_id = uid
              THEN overlapped \cup {uid} ELSE overlapped
    /\ pc' = [pc EXCEPT ![p] = "write"]
    /\ UNCHANGED <<credit_balance, profile_marked, clock, req, now, balance,
                   email_result, response, history, balVars, metaVars, svcVars>>

\* the update of the row read, or the insert of a new row; user_id is unique
\* in credit_balance, so an insert of a second row for it raises
WriteBalance(p) ==
    /\ pc[p] = "write"
    /\ LET uid == req[p].user_id
           amount == req[p].credits_to_add
       IN
       \/ /\ existing[p] # None
          /\ uid \in DOMAIN credit_balance
          /\ LET row == UpdatedRow(credit_balance[uid], existing[p][1], amount, now[p]) IN
             /\ credit_balance' = [credit_balance EXCEPT ![uid] = row]
             /\ balance' = [balance EXCEPT ![p] = Some(row)]
             /\ history' = [history EXCEPT ![uid] =
                    Append(@, [kind |-> "update", amount |-> amount])]
          /\ pc' = [pc EXCEPT ![p] = "email"]
          /\ UNCHANGED response
       \/ /\ existing[p] = None
          /\ InsertOutcome(credit_balance, uid) = "inserted"
          /\ LET row == InsertData(uid, amount, now[p]) IN
             /\ credit_balance' = [u \in DOMAIN credit_balance \cup {uid} |->
                    IF u = uid THEN row ELSE credit_balance[u]]
             /\ balance' = [balance EXCEPT ![p] = Some(row)]
             /\ history' = [history EXCEPT ![uid] =
                    Append(@, [kind |-> "insert", amount |-> amount])]
          /\ pc' = [pc EXCEPT ![p] = "email"]
          /\ UNCHANGED response
       \/ /\ existing[p] = None
          /\ InsertOutcome(credit_balance, uid) = "raises"
          /\ pc' = [pc EXCEPT ![p] = "failed"]
          /\ response' = [response EXCEPT ![p] = ErrorResponse(500)]
          /\ UNCHANGED <<credit_balance, balance, history>>
    /\ UNCHANGED <<profile_marked, clock, req, now, existing, email_result,
                   overlapped, balVars, metaVars, svcVars>>

\* a store call of assign_credits raises: the service re-raises and the
\* endpoint answers 500
StoreRaises(p) ==
    /\ pc[p] \in {"read", "write"}
    /\ pc' = [pc EXCEPT ![p] = "failed"]
    /\ response' = [response EXCEPT ![p] = ErrorResponse(500)]
    /\ UNCHANGED <<credit_balance, profile_marked, clock, req, now, existing,
                   balance, email_result, history, overlapped, balVars, metaVars, svcVars>>

\* send_credits_email and the rest of the endpoint.  A sent email marks the
\* identity's profile (when it has one) with credits_assigned.
SendCreditsEmail(p) ==
    /\ pc[p] = "email"
    /\ \E r \in EmailResults, has_profile \in BOOLEAN :
         /\ email_result' = [email_result EXCEPT ![p] = r]
         /\ profile_marked' =
                IF r = "sent" /\ has_profile
                THEN profile_marked \cup {req[p].user_id} ELSE profile_marked
         /\ IF AfterEmail(r) = "respond"
            THEN /\ pc' = [pc EXCEPT ![p] = "done"]
                 /\ response' = [response EXCEPT ![p] = SuccessResponse(balance[p][1])]
            ELSE /\ pc' = [pc EXCEPT ![p] = "failed"]
                 /\ response' = [response EXCEPT ![p] = ErrorResponse(500)]
    /\ UNCHANGED <<credit_balance, clock, req, now, existing, balance,
                   history, overlapped, balVars, metaVars, svcVars>>

Next ==
    \E p \in Calls :
        \/ Receive(p)
        \/ ReadBalance(p)
        \/ WriteBalance(p)
        \/ StoreRaises(p)
        \/ SendCreditsEmail(p)

Spec == InitAssign /\ [][Next]_vars

(* ------------------- claims on POST /credits/assign ------------------- *)

RECURSIVE SumAmounts(_)
SumAmounts(h) == IF h = <<>> THEN 0 ELSE h[1].amount + SumAmounts(Tail(h))

\* C1 (as stated): in every step, whichever requests interleave, no stored
\* row disappears and no row's balance_dollars or total_purchased goes down.
C1_NeverDecreases ==
    [][\A u \in DOMAIN credit_balance :
          /\ u \in DOMAIN credit_balance'
          /\ credit_balance'[u].balance_dollars >= credit_balance[u].balance_dollars
          /\ credit_balance'[u].total_purchased >= credit_balance[u].total_purchased]_vars

\* C2: two requests on one identity that read the same stored row b and both
\* wrote each stored and returned b plus their own amount only: the later
\* write does not contain the earlier one's amount (the update is not
\* conditioned on the row still being the one read).
C2_LostUpdate ==
    \A p, q \in Calls :
        ( /\ p # q
          /\ req[p].user_id = req[q].user_id
          /\ existing[p] # None
          /\ existing[p] = existing[q]
          /\ balance[p] # None
          /\ balance[q] # None )
        => /\ balance[p][1].balance_dollars =
                existing[p][1].balance_dollars + req[p].credits_to_add
           /\ balance[p][1].total_purchased =
                existing[p][1].total_purchased + req[p].credits_to_add

\* C2 witness: both requests answered 200 and the stored balance is b + one
\* amount, not b + both amounts.
C2_Witness ==
    \E p, q \in Calls :
        /\ p # q
        /\ pc[p] = "done" /\ pc[q] = "done"
        /\ response[p].status = 200 /\ response[q].status = 200
        /\ req[p].user_id = "u1" /\ req[q].user_id = "u1"
        /\ existing[p] # None /\ existing[p] = existing[q]
        /\ credit_balance["u1"].balance_dollars =
              existing[p][1].balance_dollars + req[q].credits_to_add
        /\ credit_balance["u1"].balance_dollars #
              existing[p][1].balance_dollars + req[p].credits_to_add
                                             + req[q].credits_to_add

\* C3: for an identity that had no row, after n >= 2 writes whose read-write
\* windows never overlapped, the row holds balance_dollars = total_purchased
\* = the sum of the amounts, total_used = 0, and last_assignment.amount is
\* the last amount.
C3_SequentialSum ==
    \A u \in UserIds :
        ( /\ u \notin overlapped
          /\ Len(history[u]) >= 2
          /\ history[u][1].kind = "insert" )
        => /\ u \in DOMAIN credit_balance
           /\ credit_balance[u].balance_dollars = SumAmounts(history[u])
           /\ credit_balance[u].total_purchased = SumAmounts(history[u])
           /\ credit_balance[u].total_used = 0
           /\ credit_balance[u].metadata.last_assignment # None
           /\ credit_balance[u].metadata.last_assignment[1].amount =
                 history[u][Len(history[u])].amount

\* C3 witness: amounts 2 then 1 on the new identity u1.
C3_Witness ==
    /\ "u1" \notin overlapped
    /\ Len(history["u1"]) = 2
    /\ history["u1"][1] = [kind |-> "insert", amount |-> 2]
    /\ history["u1"][2] = [kind |-> "update", amount |-> 1]
    /\ credit_balance["u1"].balance_dollars = 3
    /\ credit_balance["u1"].metadata.last_assignment[1].amount = 1

\* C4: a request with credits_to_add <= 0 is answered with an error (422),
\* its step changes nothing in credit_balance, and it takes no later step.
C4_NonPositiveRejected ==
    [][\A p \in Calls :
          /\ (pc[p] = "idle" /\ pc'[p] # "idle" /\ req'[p].credits_to_add <= 0)
                => /\ pc'[p] = "rejected"
                   /\ response'[p].status = 422
                   /\ ~response'[p].success
                   /\ credit_balance' = credit_balance
          /\ pc[p] = "rejected" => pc'[p] = "rejected"]_vars

\* C4 witness: a request with amount 0 was rejected while a row is stored.
C4_Witness ==
    \E p \in Calls :
        /\ pc[p] = "rejected"
        /\ req[p].credits_to_add = 0
        /\ response[p].status = 422
        /\ "u1" \in DOMAIN credit_balance

\* C5 (as stated): a request whose identity id is "" is rejected: it never
\* gets past the balance write or to a success answer, and no credit_balance
\* row is ever stored for "".
C5_EmptyIdRejected ==
    /\ \A p \in Calls :
          req[p].user_id = "" => (pc[p] \notin {"email", "done"} /\ ~response[p].success)
    /\ "" \notin DOMAIN credit_balance

\* C6: when send_credits_email fails after the balance write, the step
\* leaves credit_balance as it is and the request is answered 200 with
\* success and the row the write returned.
C6_EmailFailureSwallowed ==
    [][\A p \in Calls :
          (pc[p] = "email" /\ pc'[p] # "email" /\ email_result'[p] # "sent")
          => /\ credit_balance' = credit_balance
             /\ pc'[p] = "done"
             /\ response'[p].status = 200
             /\ response'[p].success
             /\ response'[p].data # None
             /\ response'[p].data[1].userId = req[p].user_id
             /\ response'[p].data[1].balanceDollars = balance[p][1].balance_dollars
             /\ response'[p].data[1].totalPurchased = balance[p][1].total_purchased
             /\ response'[p].data[1].totalUsed = balance[p][1].total_used]_vars

\* C6 witness: SMTP failed, the answer is 200 and the written row is stored.
C6_Witness ==
    \E p \in Calls :
        /\ pc[p] = "done"
        /\ email_result[p] = "smtp_error"
        /\ response[p].status = 200
        /\ req[p].user_id \in DOMAIN credit_balance
        /\ credit_balance[req[p].user_id] = balance[p][1]
        /\ response[p].data[1].balanceDollars = balance[p][1].balance_dollars

\* requests p and q on one identity both read "no row" and both went
\* past their write
BothReadNoRow(p, q) ==
    /\ p # q
    /\ req[p].user_id = req[q].user_id
    /\ existing[p] = None /\ existing[q] = None
    /\ pc[p] \in {"email", "done", "failed"}
    /\ pc[q] \in {"email", "done", "failed"}

Inserts(h) == {i \in 1..Len(h) : h[i].kind = "insert"}

\* C29: for an identity with no balance row, when two assign_credits calls
\* both read "no row" before either writes, at most one row for the
\* identity is ever inserted (user_id is unique in the store): when one
\* call's insert succeeded the other call failed with an error (500), and
\* the stored balance is the amount of the successful call only.
C29_ConcurrentFirstAssign ==
    \A p, q \in Calls :
        BothReadNoRow(p, q) =>
            LET uid == req[p].user_id IN
               /\ ~(balance[p] # None /\ balance[q] # None)
               /\ Cardinality(Inserts(history[uid])) <= 1
               /\ balance[p] # None =>
                     /\ pc[q] = "failed"
                     /\ response[q] = ErrorResponse(500)
                     /\ uid \in DOMAIN credit_balance
                     /\ Len(history[uid]) = 1 =>
                           /\ credit_balance[uid].balance_dollars =
                                 req[p].credits_to_add
                           /\ credit_balance[uid].total_purchased =
                                 req[p].credits_to_add

\* both requests read "no row" for u1 while the other was between its read
\* and its write; one inserted and was answered 200, the other got 500
C29_Witness ==
    \E p, q \in Calls :
        /\ BothReadNoRow(p, q)
        /\ req[p].user_id = "u1"
        /\ "u1" \in overlapped
        /\ pc[p] = "done" /\ response[p].status = 200
        /\ pc[q] = "failed" /\ response[q].status = 500
        /\ req[p].credits_to_add # req[q].credits_to_add
        /\ credit_balance["u1"].balance_dollars = req[p].credits_to_add

(* ------------------------------ strings ------------------------------- *)
(* A Python str is the sequence of its characters; "" and None are both   *)
(* <<>> where the code only tests truthiness.                             *)

Lower == <<"a","b","c","d","e","f","g","h","i","j","k","l","m",
           "n","o","p","q","r","s","t","u","v","w","x","y","z">>
Upper == <<"A","B","C","D","E","F","G","H","I","J","K","L","M",
           "N","O","P","Q","R","S","T","U","V","W","X","Y","Z">>

\* str.isalpha() of one character
IsAlpha(c) == \E i \in 1..Len(Lower) : c = Lower[i] \/ c = Upper[i]

\* str.upper() of one character
ToUpper(c) ==
    IF \E i \in 1..Len(Lower) : c = Lower[i]
    THEN Upper[CHOOSE i \in 1..Len(Lower) : c = Lower[i]]
    ELSE c

\* str.strip()
RECURSIVE LStrip(_)
LStrip(s) == IF s # <<>> /\ s[1] = " " THEN LStrip(Tail(s)) ELSE s
RECURSIVE RStrip(_)
RStrip(s) ==
    IF s # <<>> /\ s[Len(s)] = " " THEN RStrip(SubSeq(s, 1, Len(s) - 1)) ELSE s
Strip(s) == RStrip(LStrip(s))

\* Python's `a or b` on strings
Or(a, b) == IF a # <<>> THEN a ELSE b

(* ----------------------- names from user_metadata --------------------- *)
(* user_metadata is a record of the six keys the code reads; <<>> stands  *)
(* for a key that is absent or empty.                                     *)

\* f"{first_name} {last_name}".strip() if (first_name or last_name) else None
FirstLast(md) ==
    IF md.first_name # <<>> \/ md.last_name # <<>>
    THEN Strip(md.first_name \o <<" ">> \o md.last_name)
    ELSE <<>>

\* auth_name of get_credit_balances
BalancesAuthName(md) ==
    Or(md.full_name, Or(md.name, Or(md.display_name,
       Or(FirstLast(md), Or(md.first_name, md.last_name)))))

\* user_name of assign_credits (both branches)
AssignUserName(md) ==
    Or(md.full_name, Or(md.name, Or(md.preferred_name, md.display_name)))

\* name of get_credit_purchases
PurchasesName(md) ==
    Or(md.full_name, Or(md.name, Or(md.preferred_name, md.display_name)))

NoMetadata ==
    [full_name |-> <<>>, name |-> <<>>, preferred_name |-> <<>>,
     display_name |-> <<>>, first_name |-> <<>>, last_name |-> <<>>]

\* the user_metadata maps the derivations are applied to
MetadataInputs ==
    [full_name : {<<>>, <<"F">>}, name : {<<>>, <<"N">>},
     preferred_name : {<<>>, <<"P">>}, display_name : {<<>>, <<"D">>},
     first_name : {<<>>, <<" ">>, <<"A">>}, last_name : {<<>>, <<"B">>}]

InitMeta ==
    /\ user_metadata \in MetadataInputs
    /\ derived = [place |-> "none", name |-> <<>>]
    /\ credit_balance = <<>>
    /\ IdleAssign
    /\ IdleBalances
    /\ IdlePages
    /\ IdleUsers
    /\ IdleMore

DeriveInBalances ==
    /\ derived.place = "none"
    /\ derived' = [place |-> "get_credit_balances",
                   name |-> BalancesAuthName(user_metadata)]
    /\ UNCHANGED <<user_metadata, credit_balance, assignVars, balVars, svcVars>>

DeriveInAssign ==
    /\ derived.place = "none"
    /\ derived' = [place |-> "assign_credits",
                   name |-> AssignUserName(user_metadata)]
    /\ UNCHANGED <<user_metadata, credit_balance, assignVars, balVars, svcVars>>

DeriveInPurchases ==
    /\ derived.place = "none"
    /\ derived' = [place |-> "get_credit_purchases",
                   name |-> PurchasesName(user_metadata)]
    /\ UNCHANGED <<user_metadata, credit_balance, assignVars, balVars, svcVars>>

NextMeta == DeriveInBalances \/ DeriveInAssign \/ DeriveInPurchases

SpecMeta == InitMeta /\ [][NextMeta]_vars

\* C10 (as stated): wherever a name is derived from user_metadata it is the
\* first non-empty of full_name, name, preferred_name, display_name,
\* trimmed first_name + " " + last_name, first_name, last_name.
C10_MetadataOrder ==
    derived.place # "none" =>
        derived.name =
            Or(user_metadata.full_name, Or(user_metadata.name,
            Or(user_metadata.preferred_name, Or(user_metadata.display_name,
            Or(Strip(user_metadata.first_name \o <<" ">> \o user_metadata.last_name),
            Or(user_metadata.first_name, user_metadata.last_name))))))

(* ------------------------ get_credit_balances ------------------------- *)
(* Timestamps are numbers: the ISO strings of the store, parsed.  A map   *)
(* (Python dict) is a function whose domain is its key set.               *)

MaxTime == 2

Times == 1..MaxTime

\* identity ids of the stores get_credit_balances reads, in the order the
\* store returns credit_balance rows
BalanceIds == <<"u1", "u2", "abcdefgh1234">>

\* the characters of an identity id
IdChars(uid) ==
    CASE uid = "u1" -> <<"u", "1">>
      [] uid = "u2" -> <<"u", "2">>
      [] uid = "abcdefgh1234" ->
            <<"a", "b", "c", "d", "e", "f", "g", "h", "1", "2", "3", "4">>
      [] OTHER -> <<>>

Range(f) == {f[x] : x \in DOMAIN f}
Put(f, k, v) == [x \in DOMAIN f \cup {k} |-> IF x = k THEN v ELSE f[x]]
Min(a, b) == IF a <= b THEN a ELSE b

\* a credit_balance row last updated at t
BalanceRow(uid, t) == [InitialRow(uid) EXCEPT !.last_updated = t]

\* response.data: the rows of credit_balance, those of user_id when given
BalanceRowsRead(user_id) ==
    LET ids == SelectSeq(BalanceIds, LAMBDA u :
                  /\ u \in DOMAIN credit_balance
                  /\ (user_id = None \/ user_id[1] = u))
    IN [i \in 1..Len(ids) |-> credit_balance[ids[i]]]

\* purchases_response.data: completed purchases of the identities read
CompletedPurchases(user_ids) ==
    SelectSeq(credit_purchases,
              LAMBDA r : r.status = "completed" /\ r.user_id \in user_ids)

\* the loop filling userIdToLatestPurchase
RECURSIVE LatestPurchases(_, _)
LatestPurchases(rows, acc) ==
    IF rows = <<>> THEN acc
    ELSE LET purchase == rows[1]
             purchase_date_str == Or(purchase.completed_at, purchase.created_at)
         IN IF purchase_date_str = <<>>
            THEN LatestPurchases(Tail(rows), acc)
            ELSE LET purchase_date == purchase_date_str[1]
                     uid == purchase.user_id
                 IN IF uid \notin DOMAIN acc \/ purchase_date > acc[uid]
                    THEN LatestPurchases(Tail(rows), Put(acc, uid, purchase_date))
                    ELSE LatestPurchases(Tail(rows), acc)

\* userIdToLatestPurchase; empty when the purchase query raises
userIdToLatestPurchase(user_ids) ==
    IF "purchases" \in lookup_fails THEN <<>>
    ELSE LatestPurchases(CompletedPurchases(user_ids), <<>>)

sort_key_no_purchase_time(row, latest) ==
    IF row.user_id \in DOMAIN latest
    THEN <<0, 0, 0 - row.last_updated>>
    ELSE <<1, 0, 0 - row.last_updated>>
sort_key(row, latest) ==
    IF row.user_id \in DOMAIN latest
    THEN <<0, 0 - latest[row.user_id], 0 - row.last_updated>>
    ELSE <<1, 0, 0 - row.last_updated>>

\* Python's tuple comparison a < b
KeyLess(a, b) ==
    \/ a[1] < b[1]
    \/ a[1] = b[1] /\ a[2] < b[2]
    \/ a[1] = b[1] /\ a[2] = b[2] /\ a[3] < b[3]

\* sorted(response.data, key=sort_key): a stable sort
RECURSIVE InsertByKey(_, _, _)
InsertByKey(x, s, latest) ==
    IF s = <<>> THEN <<x>>
    ELSE IF KeyLess(sort_key(x, latest), sort_key(s[1], latest))
         THEN <<x>> \o s
         ELSE <<s[1]>> \o InsertByKey(x, Tail(s), latest)
RECURSIVE sorted(_, _)
sorted(data, latest) ==
    IF data = <<>> THEN <<>>
    ELSE InsertByKey(data[Len(data)], sorted(SubSeq(data, 1, Len(data) - 1), latest),
                     latest)

\* Step 1: the identities list_users() returns that are among user_ids
ListedIds(user_ids) ==
    IF "auth" \in lookup_fails THEN {}
    ELSE {u \in DOMAIN auth_users : u \in user_ids}

\* user_id_to_email after step 1
user_id_to_email(user_ids) ==
    [u \in {x \in ListedIds(user_ids) : auth_users[x].email # <<>>} |->
        auth_users[u].email]

\* user_id_to_name after step 1
AuthNames(user_ids) ==
    [u \in {x \in ListedIds(user_ids) :
               BalancesAuthName(auth_users[x].user_metadata) # <<>>} |->
        BalancesAuthName(auth_users[u].user_metadata)]

\* name of a user_profiles row
ProfileName(profile) == Or(profile.preferred_name, profile.full_name)

\* Step 2: user_id_to_name after the user_profiles rows were applied
ProfileStep_keep(names, user_ids) ==
    IF "profiles" \in lookup_fails THEN names
    ELSE [u \in DOMAIN names \cup
                {x \in DOMAIN user_profiles \cap user_ids :
                    ProfileName(user_profiles[x]) # <<>>} |->
            IF u \in DOMAIN names THEN names[u]
            ELSE ProfileName(user_profiles[u])]
ProfileStep(names, user_ids) ==
    IF "profiles" \in lookup_fails THEN names
    ELSE [u \in DOMAIN names \cup
                {x \in DOMAIN user_profiles \cap user_ids :
                    ProfileName(user_profiles[x]) # <<>>} |->
            IF u \in DOMAIN user_profiles \cap user_ids
               /\ ProfileName(user_profiles[u]) # <<>>
            THEN ProfileName(user_profiles[u])
            ELSE names[u]]

\* email_to_name: the waitlist rows with one of the emails and a full_name;
\* a later row replaces an earlier one with the same email
RECURSIVE email_to_name(_, _, _)
email_to_name(rows, emails, acc) ==
    IF rows = <<>> THEN acc
    ELSE IF rows[1].email \in emails /\ rows[1].full_name # <<>>
         THEN email_to_name(Tail(rows), emails, Put(acc, rows[1].email, rows[1].full_name))
         ELSE email_to_name(Tail(rows), emails, acc)

\* Step 3: user_id_to_name after the waitlist names were applied
WaitlistStep(names, emails, user_ids) ==
    IF /\ Cardinality(DOMAIN names) < Cardinality(user_ids)
       /\ DOMAIN emails # {}
       /\ "waitlist" \notin lookup_fails
    THEN LET e2n == email_to_name(waitlist, Range(emails), <<>>) IN
         [u \in DOMAIN names \cup {x \in DOMAIN emails : emails[x] \in DOMAIN e2n} |->
             IF u \in DOMAIN names THEN names[u] ELSE e2n[emails[u]]]
    ELSE names

\* email.split('@')[0]
RECURSIVE LocalPart(_)
LocalPart(email) ==
    IF email = <<>> \/ email[1] = "@" THEN <<>>
    ELSE <<email[1]>> \o LocalPart(Tail(email))

\* str.replace('.', ' ').replace('_', ' ').replace('-', ' ')
ReplaceSeparators_dots_only(s) ==
    [i \in 1..Len(s) |-> IF s[i] = "." THEN " " ELSE s[i]]
ReplaceSeparators(s) ==
    [i \in 1..Len(s) |-> IF s[i] \in {".", "_", "-"} THEN " " ELSE s[i]]

\* the name given to a row: the name found, else one made of the email's
\* local part, else "User " + the first 8 characters of the id
ResolveName_no_fallback(uid, email, name) ==
    LET email_name == LocalPart(email) IN
    IF name # <<>> THEN name
    ELSE IF email # <<>> /\ Len(email_name) > 2 /\ IsAlpha(email_name[1])
         THEN <<ToUpper(email_name[1])>> \o ReplaceSeparators(Tail(email_name))
         ELSE <<>>
ResolveName_short_local_part(uid, email, name) ==
    LET email_name == LocalPart(email)
        from_email ==
            IF name = <<>> /\ email # <<>>
               /\ Len(email_name) > 1 /\ IsAlpha(email_name[1])
            THEN <<ToUpper(email_name[1])>> \o ReplaceSeparators(Tail(email_name))
            ELSE name
    IN IF from_email # <<>> THEN from_email
       ELSE <<"U", "s", "e", "r", " ">>
               \o SubSeq(IdChars(uid), 1, Min(8, Len(IdChars(uid))))
ResolveName(uid, email, name) ==
    LET email_name == LocalPart(email)
        from_email ==
            IF name = <<>> /\ email # <<>>
               /\ Len(email_name) > 2 /\ IsAlpha(email_name[1])
            THEN <<ToUpper(email_name[1])>> \o ReplaceSeparators(Tail(email_name))
            ELSE name
    IN IF from_email # <<>> THEN from_email
       ELSE <<"U", "s", "e", "r", " ">>
               \o SubSeq(IdChars(uid), 1, Min(8, Len(IdChars(uid))))

\* CreditBalanceResponse
transform_credit_balance(row, user_email, user_name) ==
    [user_id |-> row.user_id, balance_dollars |-> row.balance_dollars,
     total_purchased |-> row.total_purchased, total_used |-> row.total_used,
     last_updated |-> row.last_updated, metadata |-> row.metadata,
     user_email |-> user_email, user_name |-> user_name]

\* the list get_credit_balances returns
Balances(user_id) ==
    LET data == BalanceRowsRead(user_id)
        user_ids == {data[i].user_id : i \in 1..Len(data)}
        sorted_data == sorted(data, userIdToLatestPurchase(user_ids))
        emails == user_id_to_email(user_ids)
        names == WaitlistStep(ProfileStep(AuthNames(user_ids), user_ids),
                              emails, user_ids)
    IN [i \in 1..Len(sorted_data) |->
          LET uid == sorted_data[i].user_id
              email == IF uid \in DOMAIN emails THEN emails[uid] ELSE <<>>
              name == IF uid \in DOMAIN names THEN names[uid] ELSE <<>>
          IN transform_credit_balance(sorted_data[i], email,
                                      ResolveName(uid, email, name))]

Lookups == {"purchases", "auth", "profiles", "waitlist"}

\* credit_purchases rows: completed with completed_at, completed without
\* (created_at is then the date), and pending
PurchaseRows ==
    {[user_id |-> u, status |-> "completed", completed_at |-> <<t>>, created_at |-> <<1>>] :
        u \in Range(BalanceIds), t \in Times}
    \cup
    {[user_id |-> u, status |-> "completed", completed_at |-> <<>>, created_at |-> <<t>>] :
        u \in Range(BalanceIds), t \in Times}
    \cup
    {[user_id |-> u, status |-> "pending", completed_at |-> <<>>, created_at |-> <<MaxTime>>] :
        u \in Range(BalanceIds)}

PurchaseTables ==
    {<<>>} \cup {<<a>> : a \in PurchaseRows}
           \cup {<<a, b>> : a \in PurchaseRows, b \in PurchaseRows}

E_jo == <<"j", "o", ".", "s", "_", "m", "-", "i", "@", "x">>
E_ab == <<"a", "b", "@", "x">>
E_1ab == <<"1", "a", "b", "@", "x">>

MetadataSamples ==
    {NoMetadata,
     [NoMetadata EXCEPT !.full_name = <<"F">>],
     [NoMetadata EXCEPT !.preferred_name = <<"P">>, !.display_name = <<"D">>],
     [NoMetadata EXCEPT !.first_name = <<"A">>, !.last_name = <<"B">>]}

\* the stores as far as they concern one identity
DirectoryEntries ==
    {<<>>} \cup {<<[email |-> e, user_metadata |-> md]>> :
                    e \in {<<>>, E_jo, E_ab, E_1ab}, md \in MetadataSamples}
ProfileEntries ==
    {<<>>} \cup {<<[preferred_name |-> pn, full_name |-> fn]>> :
                    pn \in {<<>>, <<"Q">>}, fn \in {<<>>, <<"G">>}}
WaitlistTables ==
    {<<>>} \cup {<<[email |-> e, full_name |-> n]>> :
                    e \in {E_jo, E_ab}, n \in {<<>>, <<"W">>}}
           \cup {<<[email |-> E_jo, full_name |-> <<"W">>],
                   [email |-> E_jo, full_name |-> n]>> : n \in {<<>>, <<"V">>}}

\* a map with the entries that are present
MapOf(u1, e1, u2, e2) ==
    [u \in (IF e1 = <<>> THEN {} ELSE {u1}) \cup (IF e2 = <<>> THEN {} ELSE {u2}) |->
        IF u = u1 THEN e1[1] ELSE e2[1]]

\* inputs that vary the ordering: any rows, any two purchases
InitOrder ==
    /\ \E S \in SUBSET Range(BalanceIds) :
          \E t \in [S -> Times] :
             credit_balance = [u \in S |-> BalanceRow(u, t[u])]
    /\ credit_purchases \in PurchaseTables
    /\ auth_users = <<>>
    /\ user_profiles = <<>>
    /\ waitlist = <<>>
    /\ lookup_fails \in {{}, {"purchases"}, {"balances"}}
    /\ gcb_user_id \in {None, Some("u1")}

\* inputs that vary the names: every directory, profile and waitlist entry
\* of identity abcdefgh1234, and three situations of identity u1
InitNames ==
    /\ credit_balance = [u \in {"u1", "abcdefgh1234"} |-> BalanceRow(u, 1)]
    /\ credit_purchases = <<>>
    /\ \E d \in DirectoryEntries, p \in ProfileEntries,
          o \in {1, 2, 3} :
          /\ auth_users = MapOf("abcdefgh1234", d, "u1",
                 CASE o = 1 -> <<>>
                   [] o = 2 -> <<[email |-> E_jo, user_metadata |-> NoMetadata]>>
                   [] o = 3 -> <<[email |-> <<>>, user_metadata |->
                                    [NoMetadata EXCEPT !.full_name = <<"F">>]]>>)
          /\ user_profiles = MapOf("abcdefgh1234", p, "u1", <<>>)
    /\ waitlist \in WaitlistTables
    /\ lookup_fails \in SUBSET (Lookups \cup {"balances"})
    /\ gcb_user_id \in {None, Some("u1")}

InitBalances ==
    /\ InitOrder \/ InitNames
    /\ gcb_pc = "idle"
    /\ gcb_result = <<>>
    /\ IdleAssign
    /\ IdleMeta
    /\ IdlePages
    /\ IdleUsers
    /\ IdleMore

\* get_credit_balances returns
GetCreditBalances ==
    /\ gcb_pc = "idle"
    /\ "balances" \notin lookup_fails
    /\ gcb_pc' = "done"
    /\ gcb_result' = Balances(gcb_user_id)
    /\ UNCHANGED <<credit_balance, credit_purchases, auth_users, user_profiles,
                   waitlist, lookup_fails, gcb_user_id, assignVars, metaVars, svcVars>>

\* the credit_balance query raises: get_credit_balances re-raises
GetCreditBalancesRaises ==
    /\ gcb_pc = "idle"
    /\ "balances" \in lookup_fails
    /\ gcb_pc' = "failed"
    /\ UNCHANGED <<credit_balance, credit_purchases, auth_users, user_profiles,
                   waitlist, lookup_fails, gcb_user_id, gcb_result, assignVars, metaVars, svcVars>>

NextBalances == GetCreditBalances \/ GetCreditBalancesRaises

SpecBalances == InitBalances /\ [][NextBalances]_vars

(* -------------------- claims on get_credit_balances ------------------- *)

\* the identity has a completed purchase in the store
HasCompleted(u) ==
    \E i \in 1..Len(credit_purchases) :
        credit_purchases[i].user_id = u /\ credit_purchases[i].status = "completed"

\* completed_at, or created_at when there is none
PurchaseTime(r) == IF r.completed_at # <<>> THEN r.completed_at[1] ELSE r.created_at[1]

\* the latest purchase time among the identity's completed purchases
LatestCompleted(u) ==
    LET ts == {PurchaseTime(credit_purchases[i]) :
                 i \in {k \in 1..Len(credit_purchases) :
                          /\ credit_purchases[k].user_id = u
                          /\ credit_purchases[k].status = "completed"}}
    IN CHOOSE t \in ts : \A x \in ts : x <= t

RowsRead ==
    {u \in DOMAIN credit_balance : gcb_user_id = None \/ gcb_user_id[1] = u}

\* C8: whichever of the purchase, directory, profile and waitlist lookups
\* raise or return nothing, the list returned has exactly one entry per row
\* read and every entry has a non-empty user_name.
C8_OneNamedEntryPerRow ==
    gcb_pc = "done" =>
        /\ Len(gcb_result) = Cardinality(RowsRead)
        /\ \A u \in RowsRead :
              Cardinality({i \in 1..Len(gcb_result) : gcb_result[i].user_id = u}) = 1
        /\ \A i \in 1..Len(gcb_result) :
              /\ gcb_result[i].user_id \in RowsRead
              /\ gcb_result[i].user_name # <<>>

\* C8 witness: all four lookups raise and both rows are returned, named.
C8_Witness ==
    /\ gcb_pc = "done"
    /\ lookup_fails = Lookups
    /\ Len(gcb_result) = 2
    /\ DOMAIN auth_users # {}
    /\ DOMAIN user_profiles # {}
    /\ waitlist # <<>>
    /\ \E i \in 1..2 :
          /\ gcb_result[i].user_id = "abcdefgh1234"
          /\ gcb_result[i].user_name =
                <<"U", "s", "e", "r", " ", "a", "b", "c", "d", "e", "f", "g", "h">>

\* the names the three sources hold for an identity, as far as the lookups
\* answered
MetadataNameOf(u) ==
    IF "auth" \notin lookup_fails /\ u \in DOMAIN auth_users
    THEN BalancesAuthName(auth_users[u].user_metadata) ELSE <<>>
ProfileNameOf(u) ==
    IF "profiles" \notin lookup_fails /\ u \in DOMAIN user_profiles
    THEN Or(user_profiles[u].preferred_name, user_profiles[u].full_name) ELSE <<>>
WaitlistNameOf(u) ==
    IF /\ "auth" \notin lookup_fails /\ "waitlist" \notin lookup_fails
       /\ u \in DOMAIN auth_users
       /\ auth_users[u].email # <<>>
       /\ \E k \in 1..Len(waitlist) :
             waitlist[k].email = auth_users[u].email /\ waitlist[k].full_name # <<>>
    THEN waitlist[CHOOSE k \in 1..Len(waitlist) :
                     /\ waitlist[k].email = auth_users[u].email
                     /\ waitlist[k].full_name # <<>>
                     /\ \A m \in 1..Len(waitlist) :
                           (waitlist[m].email = auth_users[u].email
                              /\ waitlist[m].full_name # <<>>) => m <= k].full_name
    ELSE <<>>

\* C9 (as stated): first non-empty of metadata name, profile name, waitlist
\* name; with a metadata name and a profile name, the metadata name.
C9_MetadataFirst ==
    gcb_pc = "done" =>
        \A i \in 1..Len(gcb_result) :
            LET u == gcb_result[i].user_id
                n == gcb_result[i].user_name
            IN /\ MetadataNameOf(u) # <<>> => n = MetadataNameOf(u)
               /\ (MetadataNameOf(u) = <<>> /\ ProfileNameOf(u) # <<>>)
                     => n = ProfileNameOf(u)
               /\ (MetadataNameOf(u) = <<>> /\ ProfileNameOf(u) = <<>>
                     /\ WaitlistNameOf(u) # <<>>) => n = WaitlistNameOf(u)

\* C9 (amended): first non-empty of profile name, metadata name, waitlist
\* name; with a metadata name and a profile name, the profile name.
C9_ProfileFirst ==
    gcb_pc = "done" =>
        \A i \in 1..Len(gcb_result) :
            LET u == gcb_result[i].user_id
                n == gcb_result[i].user_name
            IN /\ ProfileNameOf(u) # <<>> => n = ProfileNameOf(u)
               /\ (ProfileNameOf(u) = <<>> /\ MetadataNameOf(u) # <<>>)
                     => n = MetadataNameOf(u)
               /\ (ProfileNameOf(u) = <<>> /\ MetadataNameOf(u) = <<>>
                     /\ WaitlistNameOf(u) # <<>>) => n = WaitlistNameOf(u)

\* C9 witness: metadata full_name F and profile preferred_name Q: named Q.
C9_Witness ==
    /\ gcb_pc = "done"
    /\ \E i \in 1..Len(gcb_result) :
          /\ MetadataNameOf(gcb_result[i].user_id) = <<"F">>
          /\ ProfileNameOf(gcb_result[i].user_id) = <<"Q">>
          /\ gcb_result[i].user_name = <<"Q">>

\* the email the directory lookup gave for an identity, <<>> when none
EmailOf(u) ==
    IF "auth" \notin lookup_fails /\ u \in DOMAIN auth_users
    THEN auth_users[u].email ELSE <<>>

\* the text of an email before its first '@' (all of it when it has none)
BeforeAt(e) ==
    LET ats == {k \in 1..Len(e) : e[k] = "@"}
    IN IF ats = {} THEN e
       ELSE SubSeq(e, 1, (CHOOSE k \in ats : \A m \in ats : k <= m) - 1)

\* no source holds a name for the identity
NoNameFor(u) ==
    MetadataNameOf(u) = <<>> /\ ProfileNameOf(u) = <<>> /\ WaitlistNameOf(u) = <<>>

\* the local part is longer than 2 characters and starts with a letter
UsableLocalPart(e) ==
    e # <<>> /\ Len(BeforeAt(e)) > 2 /\ IsAlpha(BeforeAt(e)[1])

\* C11: when no source yields a name and the identity's email has a local
\* part longer than 2 characters that starts with a letter, the resolved
\* name is the local part with its first character upper-cased and every
\* '.', '_' and '-' replaced by a space, all other characters unchanged.
C11_NameFromEmail ==
    gcb_pc = "done" =>
        \A i \in 1..Len(gcb_result) :
            LET u == gcb_result[i].user_id
                n == gcb_result[i].user_name
                lp == BeforeAt(EmailOf(u))
            IN (NoNameFor(u) /\ UsableLocalPart(EmailOf(u))) =>
                  /\ Len(n) = Len(lp)
                  /\ n[1] = ToUpper(lp[1])
                  /\ \A k \in 2..Len(lp) :
                        n[k] = IF lp[k] \in {".", "_", "-"} THEN " " ELSE lp[k]

\* C11 witness: jo.s_m-i@x with no name anywhere is named "Jo s m i".
C11_Witness ==
    /\ gcb_pc = "done"
    /\ \E i \in 1..Len(gcb_result) :
          /\ NoNameFor(gcb_result[i].user_id)
          /\ EmailOf(gcb_result[i].user_id) = E_jo
          /\ gcb_result[i].user_name = <<"J", "o", " ", "s", " ", "m", " ", "i">>

\* C12: when no source yields a name and there is no usable local part (no
\* email, or a local part of length <= 2, or one not starting with a
\* letter), the resolved name is "User " followed by the first 8 characters
\* of the identity id.
C12_UserPrefixFallback ==
    gcb_pc = "done" =>
        \A i \in 1..Len(gcb_result) :
            LET u == gcb_result[i].user_id
                id == IdChars(u)
            IN (NoNameFor(u) /\ ~UsableLocalPart(EmailOf(u))) =>
                  gcb_result[i].user_name =
                     <<"U", "s", "e", "r", " ">>
                        \o [k \in 1..(IF Len(id) < 8 THEN Len(id) ELSE 8) |-> id[k]]

\* C12 witness: identity abcdefgh1234 with email 1ab@x and no name anywhere
\* is named "User abcdefgh".
C12_Witness ==
    /\ gcb_pc = "done"
    /\ "auth" \notin lookup_fails
    /\ "abcdefgh1234" \in DOMAIN auth_users
    /\ auth_users["abcdefgh1234"].email = E_1ab
    /\ \E i \in 1..Len(gcb_result) :
          /\ gcb_result[i].user_id = "abcdefgh1234"
          /\ NoNameFor("abcdefgh1234")
          /\ gcb_result[i].user_name =
                <<"U", "s", "e", "r", " ", "a", "b", "c", "d", "e", "f", "g", "h">>

(* ------------------- enumeration of the directory --------------------- *)
(* get_user_profiles and get_credit_purchases read the identity directory *)
(* page by page.  Identity ids are numbers; the identity MaxUsers + 1 is  *)
(* never in the directory.                                                *)

\* per_page of both loops.  The source has 1000; the model keeps the loop
\* and scales the page down so that directories of a few identities span
\* several pages.
per_page == 2
MaxUsers == 5

Identities == 1..(MaxUsers + 1)

EmailOfId(i) == ToString(i) \o "@x"

\* a directory entry
AuthUser(i, has_email, md) ==
    [id |-> i, email |-> IF has_email THEN Some(EmailOfId(i)) ELSE None,
     user_metadata |-> md]

\* supabase.auth.admin.list_users(page=k, per_page=n)
list_users(k, n) ==
    SubSeq(directory, (k - 1) * n + 1, Min(k * n, Len(directory)))

\* the results list_users() without parameters may give: a leading part of
\* the directory, as long as the store's own default page
list_users_unpaginated == {SubSeq(directory, 1, n) : n \in 0..Len(directory)}

\* a call of list_users as recorded in list_calls; page 0 is the call
\* without parameters
ListCall(k, n, raised, users) ==
    [page |-> k, per_page |-> n, raised |-> raised, users |-> users]

\* the set S of numbers as a list, largest first
RECURSIVE Descending(_)
Descending(S) ==
    IF S = {} THEN <<>>
    ELSE LET m == CHOOSE x \in S : \A y \in S : y <= x
         IN <<m>> \o Descending(S \ {m})

\* profiles_response.data: the user_profiles rows, newest first
ProfilesData ==
    LET ids == Descending(DOMAIN user_profiles)
    IN [i \in 1..Len(ids) |->
          [user_id |-> ids[i],
           preferred_name |-> user_profiles[ids[i]].preferred_name,
           full_name |-> user_profiles[ids[i]].full_name]]

\* the loop filling user_id_to_email of get_user_profiles
RECURSIVE EmailsOfUsers(_, _)
EmailsOfUsers(users, acc) ==
    IF users = <<>> THEN acc
    ELSE IF users[1].email # None
         THEN EmailsOfUsers(Tail(users), Put(acc, users[1].id, users[1].email[1]))
         ELSE EmailsOfUsers(Tail(users), acc)

\* UserProfileResponse, as far as the enumeration decides it
transform_user_profile(row, email) ==
    [user_id |-> row.user_id,
     email |-> IF email # None THEN email[1] ELSE "Email not available"]

\* the list get_user_profiles returns
Profiles(emails) ==
    [i \in 1..Len(ProfilesData) |->
        LET uid == ProfilesData[i].user_id
        IN transform_user_profile(ProfilesData[i],
              IF uid \in DOMAIN emails THEN Some(emails[uid]) ELSE None)]

\* the body of the loop after a call answered with users_list
AfterPage_discard(users_list) ==
    IF users_list = <<>>
    THEN /\ op_pc' = "resolve"
         /\ UNCHANGED <<page, all_auth_users>>
    ELSE /\ all_auth_users' = users_list
         /\ IF Len(users_list) < per_page
            THEN op_pc' = "resolve" /\ UNCHANGED page
            ELSE op_pc' = "list" /\ page' = page + 1
AfterPage(users_list) ==
    IF users_list = <<>>
    THEN /\ op_pc' = "resolve"
         /\ UNCHANGED <<page, all_auth_users>>
    ELSE /\ all_auth_users' = all_auth_users \o users_list
         /\ IF Len(users_list) < per_page
            THEN op_pc' = "resolve" /\ UNCHANGED page
            ELSE op_pc' = "list" /\ page' = page + 1

\* where get_user_profiles goes when list_users(page, per_page) raised
AfterRaise_fatal(k) == IF k = 1 THEN "fallback" ELSE "failed"
AfterRaise(k) == IF k = 1 THEN "fallback" ELSE "resolve"

otherVars == <<assignVars, metaVars, userVars, moreVars>>
balRest == <<credit_purchases, auth_users, waitlist, lookup_fails, gcb_user_id,
             gcb_pc, gcb_result>>

\* the directories: identities 1..n, at most one of them without email
Directories(mds) ==
    {[i \in 1..n |-> AuthUser(i, i # e, IF i = 1 THEN md ELSE NoMetadata)] :
        n \in 0..MaxUsers, e \in {0, 1, per_page + 1}, md \in mds}

NamedProfile == [preferred_name |-> <<>>, full_name |-> <<"G">>]

InitProfiles ==
    /\ directory \in Directories({NoMetadata})
    /\ \E S \in SUBSET Identities :
          /\ Cardinality(S) <= 2
          /\ user_profiles = [u \in S |-> NamedProfile]
    /\ op = "get_user_profiles"
    /\ op_pc = "start"
    /\ op_status = None
    /\ page = 0
    /\ all_auth_users = <<>>
    /\ list_calls = <<>>
    /\ resolved = [user_id_to_email |-> <<>>, user_id_to_name |-> <<>>]
    /\ op_result = <<>>
    /\ credit_balance = <<>>
    /\ credit_purchases = <<>>
    /\ auth_users = <<>>
    /\ waitlist = <<>>
    /\ lookup_fails = {}
    /\ gcb_user_id = None
    /\ gcb_pc = "idle"
    /\ gcb_result = <<>>
    /\ IdleAssign
    /\ IdleMeta
    /\ IdleUsers
    /\ IdleMore

\* the user_profiles query answers
GupReadProfiles ==
    /\ op = "get_user_profiles" /\ op_pc = "start"
    /\ IF ProfilesData = <<>>
       THEN op_pc' = "done" /\ op_result' = <<>> /\ UNCHANGED page
       ELSE op_pc' = "list" /\ page' = 1 /\ UNCHANGED op_result
    /\ UNCHANGED <<directory, op, op_status, all_auth_users, list_calls, resolved,
                   credit_balance, user_profiles, balRest, otherVars>>

\* the user_profiles query raises: get_user_profiles re-raises
GupReadProfilesRaises ==
    /\ op = "get_user_profiles" /\ op_pc = "start"
    /\ op_pc' = "failed"
    /\ UNCHANGED <<directory, op, op_status, page, all_auth_users, list_calls,
                   resolved, op_result,
                   credit_balance, user_profiles, balRest, otherVars>>

\* list_users(page, per_page) answers
GupListPage ==
    /\ op = "get_user_profiles" /\ op_pc = "list"
    /\ LET users_list == list_users(page, per_page) IN
          /\ list_calls' = Append(list_calls,
                                  ListCall(page, per_page, FALSE, users_list))
          /\ AfterPage(users_list)
    /\ UNCHANGED <<directory, op, op_status, resolved, op_result,
                   credit_balance, user_profiles, balRest, otherVars>>

\* list_users(page, per_page) raises
GupListPageRaises ==
    /\ op = "get_user_profiles" /\ op_pc = "list"
    /\ list_calls' = Append(list_calls, ListCall(page, per_page, TRUE, <<>>))
    /\ op_pc' = AfterRaise(page)
    /\ UNCHANGED <<directory, op, op_status, page, all_auth_users, resolved,
                   op_result,
                   credit_balance, user_profiles, balRest, otherVars>>

\* the fallback list_users() answers
GupListUnpaginated ==
    /\ op = "get_user_profiles" /\ op_pc = "fallback"
    /\ \E users_list \in list_users_unpaginated :
          /\ list_calls' = Append(list_calls, ListCall(0, 0, FALSE, users_list))
          /\ AfterPage(users_list)
    /\ UNCHANGED <<directory, op, op_status, resolved, op_result,
                   credit_balance, user_profiles, balRest, otherVars>>

\* the fallback list_users() raises, out of the handler: get_user_profiles
\* re-raises
GupListUnpaginatedRaises ==
    /\ op = "get_user_profiles" /\ op_pc = "fallback"
    /\ list_calls' = Append(list_calls, ListCall(0, 0, TRUE, <<>>))
    /\ op_pc' = "failed"
    /\ UNCHANGED <<directory, op, op_status, page, all_auth_users, resolved,
                   op_result,
                   credit_balance, user_profiles, balRest, otherVars>>

\* the loop has ended: emails are mapped and the profiles returned
GupReturn ==
    /\ op = "get_user_profiles" /\ op_pc = "resolve"
    /\ LET emails == EmailsOfUsers(all_auth_users, <<>>) IN
          /\ resolved' = [resolved EXCEPT !.user_id_to_email = emails]
          /\ op_result' = Profiles(emails)
    /\ op_pc' = "done"
    /\ UNCHANGED <<directory, op, op_status, page, all_auth_users, list_calls,
                   credit_balance, user_profiles, balRest, otherVars>>

NextProfiles ==
    \/ GupReadProfiles
    \/ GupReadProfilesRaises
    \/ GupListPage
    \/ GupListPageRaises
    \/ GupListUnpaginated
    \/ GupListUnpaginatedRaises
    \/ GupReturn

SpecProfiles == InitProfiles /\ [][NextProfiles]_vars

\* every step of get_user_profiles that can be taken is taken
SpecProfilesFair == SpecProfiles /\ WF_vars(NextProfiles)

(* --------------------- claims on get_user_profiles -------------------- *)

\* the users of the calls recorded, one after the other
RECURSIVE Concatenation(_)
Concatenation(calls) ==
    IF calls = <<>> THEN <<>>
    ELSE calls[1].users \o Concatenation(Tail(calls))

NoCallRaised == \A i \in 1..Len(list_calls) : ~list_calls[i].raised

\* the enumeration has stopped
Stopped == op_pc \in {"resolve", "done", "failed"}

\* What the enumeration has done so far when no call raised.
C14_InOrder ==
    (op = "get_user_profiles" /\ NoCallRaised) =>
        /\ \A i \in 1..Len(list_calls) :
              /\ list_calls[i].page = i
              /\ list_calls[i].per_page = per_page
              /\ i < Len(list_calls) => Len(list_calls[i].users) = per_page
        /\ (list_calls # <<>> /\ Len(list_calls[Len(list_calls)].users) < per_page)
              => Stopped
        /\ (list_calls # <<>> /\ Len(list_calls[Len(list_calls)].users) = per_page)
              => (op_pc = "list" /\ page = Len(list_calls) + 1)
        /\ all_auth_users = Concatenation(list_calls)
        /\ Len(list_calls) <= (Len(directory) \div per_page) + 1

\* C14: when no directory call fails, get_user_profiles requests pages
\* 1, 2, 3, ... in order with page size per_page, requests page k+1 only
\* after page k came back full, stops after the first short or empty page,
\* accumulates exactly the concatenation of the pages fetched, and always
\* comes to an end.
C14_Enumeration == [](C14_InOrder) /\ <>(op_pc \in {"done", "failed"})

\* C14 witness: a directory of MaxUsers identities read without failure in
\* more than two calls, the last page short or empty, all of it accumulated.
C14_Witness ==
    /\ op = "get_user_profiles" /\ op_pc = "done"
    /\ NoCallRaised
    /\ Len(list_calls) > 2
    /\ Len(directory) = MaxUsers
    /\ Len(list_calls[Len(list_calls)].users) < per_page
    /\ all_auth_users = directory
    /\ op_result # <<>>

\* the email the identities accumulated hold for uid
AccumulatedEmail(users, uid) ==
    IF \E j \in 1..Len(users) : users[j].id = uid /\ users[j].email # None
    THEN LET j == CHOOSE k \in 1..Len(users) :
                      /\ users[k].id = uid /\ users[k].email # None
                      /\ \A m \in 1..Len(users) :
                            (users[m].id = uid /\ users[m].email # None) => m <= k
         IN users[j].email[1]
    ELSE "Email not available"

\* C15: if list_users(page=1) raises, exactly one call without parameters
\* follows and what it returns is used as page 1; if the call for a page
\* >= 2 raises, no further call is made and get_user_profiles returns every
\* profile, its email taken from the identities of the earlier pages.
C15_PageFailures ==
    op = "get_user_profiles" =>
        /\ \A i \in 1..Len(list_calls) :
              list_calls[i].page = 0 =>
                  (i = 2 /\ list_calls[1].page = 1 /\ list_calls[1].raised)
        /\ (list_calls # <<>> /\ list_calls[1].raised) =>
              /\ op_pc = "fallback" <=> Len(list_calls) = 1
              /\ Len(list_calls) >= 2 => list_calls[2].page = 0
              /\ (Len(list_calls) >= 2 /\ ~list_calls[2].raised) =>
                    /\ SubSeq(all_auth_users, 1, Len(list_calls[2].users))
                          = list_calls[2].users
                    /\ Len(list_calls) >= 3 =>
                          /\ list_calls[3].page = 2
                          /\ Len(list_calls[2].users) >= per_page
        /\ \A i \in 1..Len(list_calls) :
              (list_calls[i].raised /\ list_calls[i].page >= 2) =>
                  /\ i = Len(list_calls)
                  /\ op_pc \in {"resolve", "done"}
                  /\ all_auth_users = Concatenation(SubSeq(list_calls, 1, i - 1))
                  /\ op_pc = "done" =>
                        /\ Len(op_result) = Cardinality(DOMAIN user_profiles)
                        /\ \A u \in DOMAIN user_profiles :
                              \E k \in 1..Len(op_result) :
                                 /\ op_result[k].user_id = u
                                 /\ op_result[k].email =
                                       AccumulatedEmail(all_auth_users, u)

\* C15 witness: page 1 raises, the call without parameters returns a full
\* page, page 2 raises, and the profile of identity 2 is returned with the
\* email found on the first page.
C15_Witness ==
    /\ op = "get_user_profiles" /\ op_pc = "done"
    /\ Len(list_calls) = 3
    /\ list_calls[1].page = 1 /\ list_calls[1].raised
    /\ list_calls[2].page = 0 /\ ~list_calls[2].raised
    /\ list_calls[3].page = 2 /\ list_calls[3].raised
    /\ Len(directory) > Len(all_auth_users)
    /\ \E k \in 1..Len(op_result) :
          op_result[k].user_id = 2 /\ op_result[k].email = EmailOfId(2)

(* ------------------------ get_credit_purchases ------------------------ *)

\* response.data: the rows of credit_purchases, those of the status given
PurchasesData ==
    SelectSeq(credit_purchases,
              LAMBDA r : op_status = None \/ r.status = op_status[1])

\* user_ids of get_credit_purchases
PurchaseUserIds == {PurchasesData[i].user_id : i \in 1..Len(PurchasesData)}

\* the loop "Process users": emails and metadata names of the identities
\* enumerated that have a purchase
RECURSIVE ProcessUsers(_, _, _)
ProcessUsers(users, user_ids, acc) ==
    IF users = <<>> THEN acc
    ELSE LET user == users[1]
             name == PurchasesName(user.user_metadata)
             with_email ==
                 IF user.email # None
                 THEN Put(acc.user_id_to_email, user.id, user.email[1])
                 ELSE acc.user_id_to_email
             with_name ==
                 IF name # <<>>
                 THEN Put(acc.user_id_to_name, user.id, name)
                 ELSE acc.user_id_to_name
         IN IF user.id \in user_ids
            THEN ProcessUsers(Tail(users), user_ids,
                     [user_id_to_email |-> with_email, user_id_to_name |-> with_name])
            ELSE ProcessUsers(Tail(users), user_ids, acc)

\* user_id_to_name after the user_profiles rows of user_ids were applied
PurchaseProfileStep(names, user_ids) ==
    [u \in DOMAIN names \cup
           {x \in DOMAIN user_profiles \cap user_ids :
               ProfileName(user_profiles[x]) # <<>>} |->
        IF u \in DOMAIN user_profiles \cap user_ids
           /\ ProfileName(user_profiles[u]) # <<>>
        THEN ProfileName(user_profiles[u])
        ELSE names[u]]

\* CreditPurchaseResponse, as far as the lookups decide it
transform_credit_purchase(row, user_email, user_name) ==
    [user_id |-> row.user_id, status |-> row.status,
     user_email |-> user_email, user_name |-> user_name]

\* the list get_credit_purchases returns
Purchases(emails, names) ==
    [i \in 1..Len(PurchasesData) |->
        LET uid == PurchasesData[i].user_id
        IN transform_credit_purchase(PurchasesData[i],
              IF uid \in DOMAIN emails THEN Some(emails[uid]) ELSE None,
              IF uid \in DOMAIN names THEN names[uid] ELSE <<>>)]

\* purchases of an identity on the first page, one on the second page and
\* one the directory never holds
PurchaseSamples ==
    {[user_id |-> u, status |-> st] :
        u \in {1, per_page + 1, MaxUsers + 1}, st \in {"completed", "pending"}}

InitPurchases ==
    /\ directory \in Directories({NoMetadata,
                                  [NoMetadata EXCEPT !.full_name = <<"F">>],
                                  [NoMetadata EXCEPT !.preferred_name = <<"P">>,
                                                     !.display_name = <<"D">>]})
    /\ \E e \in {<<>>, <<[preferred_name |-> <<"Q">>, full_name |-> <<>>]>>,
                       <<[preferred_name |-> <<>>, full_name |-> <<>>]>>} :
          user_profiles = MapOf(1, e, 0, <<>>)
    /\ credit_purchases \in
          {<<>>} \cup {<<a>> : a \in PurchaseSamples}
                 \cup {<<a, b>> : a \in PurchaseSamples,
                                  b \in {r \in PurchaseSamples : r.status = "completed"}}
    /\ op = "get_credit_purchases"
    /\ op_pc = "start"
    /\ op_status \in {None, Some("completed")}
    /\ page = 0
    /\ all_auth_users = <<>>
    /\ list_calls = <<>>
    /\ resolved = [user_id_to_email |-> <<>>, user_id_to_name |-> <<>>]
    /\ op_result = <<>>
    /\ credit_balance = <<>>
    /\ auth_users = <<>>
    /\ waitlist = <<>>
    /\ lookup_fails = {}
    /\ gcb_user_id = None
    /\ gcb_pc = "idle"
    /\ gcb_result = <<>>
    /\ IdleAssign
    /\ IdleMeta
    /\ IdleUsers
    /\ IdleMore

\* the credit_purchases query answers
GcpReadPurchases ==
    /\ op = "get_credit_purchases" /\ op_pc = "start"
    /\ IF PurchasesData = <<>>
       THEN op_pc' = "done" /\ op_result' = <<>> /\ UNCHANGED page
       ELSE op_pc' = "list" /\ page' = 1 /\ UNCHANGED op_result
    /\ UNCHANGED <<directory, op, op_status, all_auth_users, list_calls, resolved,
                   credit_balance, user_profiles, balRest, otherVars>>

\* the credit_purchases query raises: get_credit_purchases re-raises
GcpReadPurchasesRaises ==
    /\ op = "get_credit_purchases" /\ op_pc = "start"
    /\ op_pc' = "failed"
    /\ UNCHANGED <<directory, op, op_status, page, all_auth_users, list_calls,
                   resolved, op_result,
                   credit_balance, user_profiles, balRest, otherVars>>

\* list_users(page, per_page) answers
GcpListPage ==
    /\ op = "get_credit_purchases" /\ op_pc = "list"
    /\ LET users_list == list_users(page, per_page) IN
          /\ list_calls' = Append(list_calls,
                                  ListCall(page, per_page, FALSE, users_list))
          /\ AfterPage(users_list)
    /\ UNCHANGED <<directory, op, op_status, resolved, op_result,
                   credit_balance, user_profiles, balRest, otherVars>>

\* list_users(page, per_page) raises: the handler around the loop and the
\* processing logs it, and neither map has been filled
GcpListPageRaises ==
    /\ op = "get_credit_purchases" /\ op_pc = "list"
    /\ list_calls' = Append(list_calls, ListCall(page, per_page, TRUE, <<>>))
    /\ op_pc' = "profiles"
    /\ UNCHANGED <<directory, op, op_status, page, all_auth_users, resolved,
                   op_result,
                   credit_balance, user_profiles, balRest, otherVars>>

\* the loop has ended: the identities enumerated are processed
GcpProcessUsers ==
    /\ op = "get_credit_purchases" /\ op_pc = "resolve"
    /\ resolved' = ProcessUsers(all_auth_users, PurchaseUserIds, resolved)
    /\ op_pc' = "profiles"
    /\ UNCHANGED <<directory, op, op_status, page, all_auth_users, list_calls,
                   op_result,
                   credit_balance, user_profiles, balRest, otherVars>>

\* the user_profiles query answers; the purchases are returned
GcpReadProfiles ==
    /\ op = "get_credit_purchases" /\ op_pc = "profiles"
    /\ LET names == PurchaseProfileStep(resolved.user_id_to_name, PurchaseUserIds) IN
          /\ resolved' = [resolved EXCEPT !.user_id_to_name = names]
          /\ op_result' = Purchases(resolved.user_id_to_email, names)
    /\ op_pc' = "done"
    /\ UNCHANGED <<directory, op, op_status, page, all_auth_users, list_calls,
                   credit_balance, user_profiles, balRest, otherVars>>

\* the user_profiles query raises; the purchases are returned
GcpReadProfilesRaises ==
    /\ op = "get_credit_purchases" /\ op_pc = "profiles"
    /\ op_result' = Purchases(resolved.user_id_to_email, resolved.user_id_to_name)
    /\ op_pc' = "done"
    /\ UNCHANGED <<directory, op, op_status, page, all_auth_users, list_calls,
                   resolved,
                   credit_balance, user_profiles, balRest, otherVars>>

NextPurchases ==
    \/ GcpReadPurchases
    \/ GcpReadPurchasesRaises
    \/ GcpListPage
    \/ GcpListPageRaises
    \/ GcpProcessUsers
    \/ GcpReadProfiles
    \/ GcpReadProfilesRaises

SpecPurchases == InitPurchases /\ [][NextPurchases]_vars

(* ------------------- claims on get_credit_purchases ------------------- *)

\* C13 (as stated): every purchase returned carries a non-empty user_name,
\* also when the directory and the profile store have no name for its
\* identity or their lookups raise.
C13_EveryPurchaseNamed ==
    (op = "get_credit_purchases" /\ op_pc = "done") =>
        \A i \in 1..Len(op_result) : op_result[i].user_name # <<>>

\* C16 (as stated): when the enumeration raises on a page >= 2, the
\* identities of the pages fetched before still give user_email and
\* user_name (the metadata name, unless a profile name replaces it) of the
\* purchases returned.
C16_AccumulatedKept ==
    (/\ op = "get_credit_purchases" /\ op_pc = "done"
     /\ list_calls # <<>>
     /\ list_calls[Len(list_calls)].raised
     /\ list_calls[Len(list_calls)].page >= 2) =>
        LET fetched == Concatenation(list_calls) IN
        \A i \in 1..Len(op_result) :
           \A j \in 1..Len(fetched) :
              fetched[j].id = op_result[i].user_id =>
                 /\ fetched[j].email # None =>
                       op_result[i].user_email = fetched[j].email
                 /\ (/\ PurchasesName(fetched[j].user_metadata) # <<>>
                     /\ op_result[i].user_id \notin DOMAIN user_profiles) =>
                       op_result[i].user_name
                          = PurchasesName(fetched[j].user_metadata)

(* --------------------- create_user and delete_user -------------------- *)
(* The calls run one after the other; each store call is one step and may *)
(* answer or fail.  A call of auth.admin.delete_user that raises may or    *)
(* may not have deleted the identity (user_service.py, lines 349-350).     *)

\* the largest id the directory hands out
MaxIds == 2

NewEmails == {"a@x", "b@x"}

pageRest == <<op, op_pc, op_status, page, all_auth_users, list_calls, resolved,
              op_result>>
userFrame == <<assignVars, metaVars, balRest, pageRest, moreVars>>

InDirectory(uid) == \E j \in 1..Len(directory) : directory[j].id = uid
EmailRegistered(email) ==
    \E j \in 1..Len(directory) : directory[j].email = Some(email)

\* full_name.split()[0]
RECURSIVE UntilSpace(_)
UntilSpace(str) ==
    IF str = <<>> \/ str[1] = " " THEN <<>>
    ELSE <<str[1]>> \o UntilSpace(Tail(str))
FirstWord(str) == UntilSpace(LStrip(str))

\* the identity auth.admin.create_user makes
NewIdentity(uid, email, full_name, preferred_name) ==
    [id |-> uid, email |-> Some(email),
     user_metadata |-> [NoMetadata EXCEPT !.full_name = full_name,
                           !.preferred_name = Or(preferred_name, full_name)]]

\* profile_data
ProfileData(full_name, preferred_name) ==
    [preferred_name |-> IF full_name # <<>>
                        THEN Or(preferred_name, FirstWord(full_name))
                        ELSE <<>>,
     full_name |-> full_name]

Without(f, k) == [x \in DOMAIN f \ {k} |-> f[x]]

\* the stores after the directory deleted identity uid
DirectoryAfterDelete(uid) == SelectSeq(directory, LAMBDA a : a.id # uid)
ProfilesAfterIdentityDelete(uid) ==
    IF cascade_delete THEN Without(user_profiles, uid) ELSE user_profiles

StoreCall(call, uid, outcome) ==
    [call |-> call, user_id |-> uid, outcome |-> outcome]

Success == [status |-> 200, detail |-> "ok"]

\* what create_user raises after the profile step `step` failed and the
\* compensating delete ended with `cleanup`
CreateUserError_escalate(step, cleanup) ==
    IF cleanup = "raised" THEN [status |-> 500, detail |-> "cleanup"]
    ELSE [status |-> IF step = "insert_constraint" THEN 409 ELSE 500, detail |-> step]
CreateUserError(step, cleanup) ==
    [status |-> IF step = "insert_constraint" THEN 409 ELSE 500, detail |-> step]

\* how delete_user ends after get_user_by_id answered: the exception
\* raised for an identity that still exists is raised inside the try whose
\* handler takes every error without a not-found message as "could not
\* verify" and assumes success
\* how delete_user ends after the directory said the identity is not found
AfterNotFound_raise(outcome) ==
    IF outcome = "raised_not_found" THEN [status |-> 500, detail |-> "raised"]
    ELSE Success
AfterNotFound(outcome) == Success

AfterVerify(user_still_exists) ==
    LET check_error == IF user_still_exists
                       THEN Some("Failed to delete auth user") ELSE None
    IN IF check_error = None THEN Success
       ELSE Success

\* str.lower()
LowerChar(c) ==
    IF \E i \in 1..Len(Upper) : c = Upper[i]
    THEN Lower[CHOOSE i \in 1..Len(Upper) : c = Upper[i]]
    ELSE c
RECURSIVE lower(_)
lower(str) ==
    IF Len(str) = 0 THEN ""
    ELSE LowerChar(Head(str)) \o lower(SubSeq(str, 2, Len(str)))

\* `keyword in text`
In(keyword, text) ==
    \E i \in 1..(Len(text) - Len(keyword) + 1) :
        SubSeq(text, i, i + Len(keyword) - 1) = keyword

\* the test of lines 144-145 and 276-277 on a lower-cased error text
DuplicatePattern_either(error_str) ==
    \/ \E keyword \in {"already", "duplicate", "exists"} : In(keyword, error_str)
    \/ \E keyword \in {"registered", "exists", "email", "user"} :
          In(keyword, error_str)
DuplicatePattern(error_str) ==
    /\ \E keyword \in {"already", "duplicate", "exists"} : In(keyword, error_str)
    /\ \E keyword \in {"registered", "exists", "email", "user"} :
          In(keyword, error_str)

\* the test of line 180 on the error of a response without a user
ResponsePattern(error_lower) ==
    /\ In("already", error_lower)
    /\ In("registered", error_lower) \/ In("exists", error_lower)

Conflict == [status |-> 409, detail |-> "A user with this email address already exists"]

\* the outer handler of create_user for an exception that is not an
\* HTTPException
OuterExcept(message) ==
    IF DuplicatePattern(lower(message)) THEN Conflict
    ELSE [status |-> 500, detail |-> message]

\* how create_user ends after auth.admin.create_user raised an exception
\* with this text (way "raised") or answered with this error and no user
\* (way "error")
AuthErrorResponse(way, text) ==
    IF way = "raised"
    THEN IF DuplicatePattern(lower(text)) THEN Conflict
         ELSE OuterExcept("Failed to create auth user: " \o text)
    ELSE IF ResponsePattern(lower(text)) THEN Conflict
         ELSE OuterExcept("Failed to create auth user: " \o text)

\* error texts of the identity store: for an email already registered, and
\* for other failures
DuplicateEmailTexts ==
    {"A user with this email address has already been registered",
     "User already registered"}
OtherErrorTexts ==
    {"Password should be at least 6 characters",
     "Unable to validate email address: invalid format",
     "Database error creating new user",
     "User not allowed",
     "[Errno 111] Connection refused"}

\* the failures of auth.admin.create_user for an email that is registered
\* or not
AuthErrors(registered) ==
    [way : {"raised", "error"}, cause : {"other"}, text : OtherErrorTexts]
    \cup (IF registered
          THEN [way : {"raised", "error"}, cause : {"duplicate_email"},
                text : DuplicateEmailTexts]
          ELSE {})

LastCall(name, uid) ==
    Some([op |-> name, user_id |-> uid, status |-> uresponse.status,
          directory |-> directory, user_profiles |-> user_profiles])

InitUsers ==
    /\ \E n \in {0, 1} :
          /\ directory = [i \in 1..n |-> NewIdentity(i, "a@x", <<"F">>, <<>>)]
          /\ user_profiles = [i \in 1..n |-> ProfileData(<<"F">>, <<>>)]
          /\ next_id = n + 1
    /\ cascade_delete \in BOOLEAN
    /\ uop = "none"
    /\ upc = "idle"
    /\ cu_email = None
    /\ cu_user_id = None
    /\ du_user_id = 0
    /\ profile_error = "none"
    /\ store_calls = <<>>
    /\ uresponse = [status |-> 0, detail |-> "none"]
    /\ last_call = None
    /\ auth_error = None
    /\ credit_balance = <<>>
    /\ credit_purchases = <<>>
    /\ auth_users = <<>>
    /\ waitlist = <<>>
    /\ lookup_fails = {}
    /\ gcb_user_id = None
    /\ gcb_pc = "idle"
    /\ gcb_result = <<>>
    /\ op = "none"
    /\ op_pc = "idle"
    /\ op_status = None
    /\ page = 0
    /\ all_auth_users = <<>>
    /\ list_calls = <<>>
    /\ resolved = [user_id_to_email |-> <<>>, user_id_to_name |-> <<>>]
    /\ op_result = <<>>
    /\ IdleAssign
    /\ IdleMeta
    /\ IdleMore

\* create_user is called
StartCreateUser ==
    /\ uop = "none"
    /\ \E email \in NewEmails : cu_email' = Some(email)
    /\ uop' = "create_user"
    /\ upc' = "auth"
    /\ cu_user_id' = None
    /\ profile_error' = "none"
    /\ store_calls' = <<>>
    /\ uresponse' = [status |-> 0, detail |-> "none"]
    /\ auth_error' = None
    /\ UNCHANGED <<directory, user_profiles, du_user_id, next_id, cascade_delete,
                   last_call, userFrame>>

\* auth.admin.create_user answers with the new identity
CuCreateIdentity ==
    /\ uop = "create_user" /\ upc = "auth"
    /\ ~EmailRegistered(cu_email[1])
    /\ next_id <= MaxIds
    /\ directory' = Append(directory, NewIdentity(next_id, cu_email[1], <<"F">>, <<>>))
    /\ cu_user_id' = Some(next_id)
    /\ next_id' = next_id + 1
    /\ store_calls' = Append(store_calls,
          StoreCall("auth.create_user", next_id, "created"))
    /\ upc' = "insert"
    /\ UNCHANGED <<user_profiles, uop, cu_email, du_user_id, profile_error,
                   uresponse, cascade_delete, auth_error, last_call, userFrame>>

\* auth.admin.create_user raises, or answers without a user and with an
\* error: the error text decides between 409 and 500
CuCreateIdentityFails ==
    /\ uop = "create_user" /\ upc = "auth"
    /\ \E err \in AuthErrors(EmailRegistered(cu_email[1])) :
          /\ auth_error' = Some(err)
          /\ uresponse' = AuthErrorResponse(err.way, err.text)
          /\ store_calls' = Append(store_calls,
                StoreCall("auth.create_user", 0, err.way))
    /\ upc' = "done"
    /\ UNCHANGED <<directory, user_profiles, uop, cu_email, cu_user_id, du_user_id,
                   profile_error, next_id, cascade_delete, last_call, userFrame>>

\* the insert into user_profiles answers
CuInsertProfile ==
    /\ uop = "create_user" /\ upc = "insert"
    /\ user_profiles' = Put(user_profiles, cu_user_id[1], ProfileData(<<"F">>, <<>>))
    /\ store_calls' = Append(store_calls,
          StoreCall("user_profiles.insert", cu_user_id[1], "inserted"))
    /\ upc' = "reread"
    /\ UNCHANGED <<directory, uop, cu_email, cu_user_id, du_user_id, profile_error,
                   uresponse, next_id, cascade_delete,
                   auth_error, last_call, userFrame>>

\* the insert raises, or answers with an error (raised at line 226)
CuInsertProfileFails ==
    /\ uop = "create_user" /\ upc = "insert"
    /\ \E step \in {"insert", "insert_constraint"} : profile_error' = step
    /\ store_calls' = Append(store_calls,
          StoreCall("user_profiles.insert", cu_user_id[1], "raised"))
    /\ upc' = "cleanup"
    /\ UNCHANGED <<directory, user_profiles, uop, cu_email, cu_user_id, du_user_id,
                   uresponse, next_id, cascade_delete,
                   auth_error, last_call, userFrame>>

\* the re-read answers with the row: create_user returns the profile
CuReread ==
    /\ uop = "create_user" /\ upc = "reread"
    /\ cu_user_id[1] \in DOMAIN user_profiles
    /\ store_calls' = Append(store_calls,
          StoreCall("user_profiles.select", cu_user_id[1], "row"))
    /\ uresponse' = Success
    /\ upc' = "done"
    /\ UNCHANGED <<directory, user_profiles, uop, cu_email, cu_user_id, du_user_id,
                   profile_error, next_id, cascade_delete,
                   auth_error, last_call, userFrame>>

\* the re-read raises, answers with an error, or answers without data
CuRereadFails ==
    /\ uop = "create_user" /\ upc = "reread"
    /\ \E step \in {"reread_raised", "reread_error", "reread_no_data"} :
          /\ profile_error' = step
          /\ store_calls' = Append(store_calls,
                StoreCall("user_profiles.select", cu_user_id[1], step))
    /\ upc' = "cleanup"
    /\ UNCHANGED <<directory, user_profiles, uop, cu_email, cu_user_id, du_user_id,
                   uresponse, next_id, cascade_delete,
                   auth_error, last_call, userFrame>>

\* the compensating auth.admin.delete_user answers; create_user raises
CuCleanup ==
    /\ uop = "create_user" /\ upc = "cleanup"
    /\ directory' = DirectoryAfterDelete(cu_user_id[1])
    /\ user_profiles' = ProfilesAfterIdentityDelete(cu_user_id[1])
    /\ store_calls' = Append(store_calls,
          StoreCall("auth.delete_user", cu_user_id[1], "deleted"))
    /\ uresponse' = CreateUserError(profile_error, "deleted")
    /\ upc' = "done"
    /\ UNCHANGED <<uop, cu_email, cu_user_id, du_user_id, profile_error, next_id,
                   cascade_delete, auth_error, last_call, userFrame>>

\* the compensating auth.admin.delete_user raises, the identity deleted or
\* not: logged; create_user raises
CuCleanupFails ==
    /\ uop = "create_user" /\ upc = "cleanup"
    /\ \/ /\ store_calls' = Append(store_calls,
                   StoreCall("auth.delete_user", cu_user_id[1], "raised"))
          /\ UNCHANGED <<directory, user_profiles>>
       \/ /\ store_calls' = Append(store_calls,
                   StoreCall("auth.delete_user", cu_user_id[1], "raised_after_delete"))
          /\ directory' = DirectoryAfterDelete(cu_user_id[1])
          /\ user_profiles' = ProfilesAfterIdentityDelete(cu_user_id[1])
    /\ uresponse' = CreateUserError(profile_error, "raised")
    /\ upc' = "done"
    /\ UNCHANGED <<uop, cu_email, cu_user_id, du_user_id, profile_error, next_id,
                   cascade_delete, auth_error, last_call, userFrame>>

\* delete_user is called; an empty user_id raises ValueError
StartDeleteUser ==
    /\ uop = "none"
    /\ \E uid \in 0..MaxIds :
          /\ du_user_id' = uid
          /\ IF uid = 0
             THEN upc' = "done" /\ uresponse' = [status |-> 500, detail |-> "ValueError"]
             ELSE upc' = "profile" /\ uresponse' = [status |-> 0, detail |-> "none"]
    /\ uop' = "delete_user"
    /\ store_calls' = <<>>
    /\ cu_email' = None
    /\ cu_user_id' = None
    /\ profile_error' = "none"
    /\ UNCHANGED <<directory, user_profiles, next_id, cascade_delete, auth_error,
                   last_call,
                   userFrame>>

\* the delete on user_profiles answers
DuDeleteProfile ==
    /\ uop = "delete_user" /\ upc = "profile"
    /\ user_profiles' = Without(user_profiles, du_user_id)
    /\ store_calls' = Append(store_calls,
          StoreCall("user_profiles.delete", du_user_id, "deleted"))
    /\ upc' = "auth"
    /\ UNCHANGED <<directory, uop, cu_email, cu_user_id, du_user_id, profile_error,
                   uresponse, next_id, cascade_delete,
                   auth_error, last_call, userFrame>>

\* the delete on user_profiles raises or answers with an error: logged,
\* delete_user goes on
DuDeleteProfileFails ==
    /\ uop = "delete_user" /\ upc = "profile"
    /\ \E outcome \in {"raised", "error", "error_not_found"} :
          store_calls' = Append(store_calls,
             StoreCall("user_profiles.delete", du_user_id, outcome))
    /\ upc' = "auth"
    /\ UNCHANGED <<directory, user_profiles, uop, cu_email, cu_user_id, du_user_id,
                   profile_error, uresponse, next_id, cascade_delete,
                   auth_error, last_call,
                   userFrame>>

\* auth.admin.delete_user answers, the identity is deleted
DuDeleteIdentity ==
    /\ uop = "delete_user" /\ upc = "auth"
    /\ InDirectory(du_user_id)
    /\ directory' = DirectoryAfterDelete(du_user_id)
    /\ user_profiles' = ProfilesAfterIdentityDelete(du_user_id)
    /\ store_calls' = Append(store_calls,
          StoreCall("auth.delete_user", du_user_id, "deleted"))
    /\ uresponse' = Success
    /\ upc' = "done"
    /\ UNCHANGED <<uop, cu_email, cu_user_id, du_user_id, profile_error, next_id,
                   cascade_delete, auth_error, last_call, userFrame>>

\* the directory has no such identity and says so, in the response or by
\* raising
DuDeleteIdentityNotFound ==
    /\ uop = "delete_user" /\ upc = "auth"
    /\ ~InDirectory(du_user_id)
    /\ \E outcome \in {"error_not_found", "raised_not_found"} :
          /\ store_calls' = Append(store_calls,
                                   StoreCall("auth.delete_user", du_user_id, outcome))
          /\ uresponse' = AfterNotFound(outcome)
    /\ upc' = "done"
    /\ UNCHANGED <<directory, user_profiles, uop, cu_email, cu_user_id, du_user_id,
                   profile_error, next_id, cascade_delete,
                   auth_error, last_call, userFrame>>

\* auth.admin.delete_user answers with another error (raised at line 334)
\* or raises another error, the identity deleted or not
DuDeleteIdentityFails ==
    /\ uop = "delete_user" /\ upc = "auth"
    /\ \/ /\ \E outcome \in {"error", "raised"} :
               store_calls' = Append(store_calls,
                   StoreCall("auth.delete_user", du_user_id, outcome))
          /\ UNCHANGED <<directory, user_profiles>>
       \/ /\ InDirectory(du_user_id)
          /\ store_calls' = Append(store_calls,
                StoreCall("auth.delete_user", du_user_id, "raised_after_delete"))
          /\ directory' = DirectoryAfterDelete(du_user_id)
          /\ user_profiles' = ProfilesAfterIdentityDelete(du_user_id)
    /\ upc' = "verify"
    /\ UNCHANGED <<uop, cu_email, cu_user_id, du_user_id, profile_error, uresponse,
                   next_id, cascade_delete, auth_error, last_call, userFrame>>

\* get_user_by_id answers: with the identity, or without one (a not-found
\* error included)
DuVerify ==
    /\ uop = "delete_user" /\ upc = "verify"
    /\ LET user_still_exists == InDirectory(du_user_id) IN
          /\ store_calls' = Append(store_calls,
                StoreCall("auth.get_user_by_id", du_user_id,
                          IF user_still_exists THEN "found" ELSE "not_found"))
          /\ uresponse' = AfterVerify(user_still_exists)
    /\ upc' = "done"
    /\ UNCHANGED <<directory, user_profiles, uop, cu_email, cu_user_id, du_user_id,
                   profile_error, next_id, cascade_delete,
                   auth_error, last_call, userFrame>>

\* get_user_by_id raises another error: success is assumed
DuVerifyRaises ==
    /\ uop = "delete_user" /\ upc = "verify"
    /\ store_calls' = Append(store_calls,
          StoreCall("auth.get_user_by_id", du_user_id, "raised"))
    /\ uresponse' = Success
    /\ upc' = "done"
    /\ UNCHANGED <<directory, user_profiles, uop, cu_email, cu_user_id, du_user_id,
                   profile_error, next_id, cascade_delete,
                   auth_error, last_call, userFrame>>

\* the operation returns or raises to its caller
UserReturn ==
    /\ uop # "none" /\ upc = "done"
    /\ last_call' = LastCall(uop, IF uop = "delete_user" THEN du_user_id
                                  ELSE IF cu_user_id = None THEN 0 ELSE cu_user_id[1])
    /\ uop' = "none"
    /\ upc' = "idle"
    /\ auth_error' = None
    /\ UNCHANGED <<directory, user_profiles, cu_email, cu_user_id, du_user_id,
                   profile_error, store_calls, uresponse, next_id, cascade_delete,
                   userFrame>>

NextUsers ==
    \/ StartCreateUser
    \/ CuCreateIdentity
    \/ CuCreateIdentityFails
    \/ CuInsertProfile
    \/ CuInsertProfileFails
    \/ CuReread
    \/ CuRereadFails
    \/ CuCleanup
    \/ CuCleanupFails
    \/ StartDeleteUser
    \/ DuDeleteProfile
    \/ DuDeleteProfileFails
    \/ DuDeleteIdentity
    \/ DuDeleteIdentityNotFound
    \/ DuDeleteIdentityFails
    \/ DuVerify
    \/ DuVerifyRaises
    \/ UserReturn

SpecUsers == InitUsers /\ [][NextUsers]_vars

(* ---------------- claims on create_user and delete_user --------------- *)

\* create_user has ended after a profile step failed
ProfileStepFailed ==
    /\ uop = "create_user" /\ upc = "done"
    /\ cu_user_id # None
    /\ Len(store_calls) >= 2
    /\ \E k \in 2..Len(store_calls) :
          \/ store_calls[k].call = "user_profiles.insert"
             /\ store_calls[k].outcome = "raised"
          \/ store_calls[k].call = "user_profiles.select"
             /\ store_calls[k].outcome
                   \in {"reread_raised", "reread_error", "reread_no_data"}

\* C17: when create_user has created the identity and the profile insert
\* raises, or the re-read raises, reports an error or returns no data, the
\* last store call of create_user is a delete of that identity, made after
\* the failed step; the error create_user ends with is that of the profile
\* step whether the delete answered or raised; and when the delete raised
\* without deleting, the identity is still in the directory.
C17_CompensatingDelete ==
    /\ (uop = "create_user" /\ upc = "done" /\ cu_user_id # None
          /\ uresponse.status # 200) => ProfileStepFailed
    /\ ProfileStepFailed =>
          LET n == Len(store_calls)
              step == store_calls[n - 1]
              cleanup == store_calls[n]
          IN /\ step.call \in {"user_profiles.insert", "user_profiles.select"}
             /\ step.outcome \notin {"inserted", "row"}
             /\ cleanup.call = "auth.delete_user"
             /\ cleanup.user_id = cu_user_id[1]
             /\ uresponse.status \in {409, 500}
             /\ uresponse.detail \in
                   (IF step.call = "user_profiles.insert"
                    THEN {"insert", "insert_constraint"} ELSE {step.outcome})
             /\ cleanup.outcome = "raised" => InDirectory(cu_user_id[1])
             /\ cleanup.outcome = "deleted" => ~InDirectory(cu_user_id[1])

\* C17 witness: the re-read returned no data, the compensating delete
\* raised, create_user ended with the re-read's error and the identity is
\* still in the directory.
C17_Witness ==
    /\ ProfileStepFailed
    /\ store_calls[Len(store_calls) - 1].outcome = "reread_no_data"
    /\ store_calls[Len(store_calls)].call = "auth.delete_user"
    /\ store_calls[Len(store_calls)].outcome = "raised"
    /\ uresponse = [status |-> 500, detail |-> "reread_no_data"]
    /\ InDirectory(cu_user_id[1])

\* C18 (as stated): whenever no create_user or delete_user is running,
\* every user_profiles row has the id of an identity of the directory.
C18_ProfilesReferenceIdentities ==
    uop = "none" => \A u \in DOMAIN user_profiles : InDirectory(u)

\* C19 (as stated): when the identity delete of delete_user failed with
\* another error than not-found and get_user_by_id answered, delete_user
\* raises if the identity still exists and succeeds if it does not.
C19_VerifiedByRequery ==
    (/\ uop = "delete_user" /\ upc = "done"
     /\ store_calls # <<>>
     /\ store_calls[Len(store_calls)].call = "auth.get_user_by_id") =>
        /\ store_calls[Len(store_calls)].outcome = "found"
              => uresponse.status # 200
        /\ store_calls[Len(store_calls)].outcome = "not_found"
              => uresponse.status = 200

IdentityRejected ==
    /\ uop = "create_user" /\ upc = "done"
    /\ auth_error # None

\* C22: when the identity store rejects the creation because the email is
\* already registered, create_user fails with status 409 and inserts no
\* profile row (the failed directory call is the only store call made); a
\* failure of the identity store that is not a duplicate-email error gives
\* status 500.
C22_DuplicateEmailConflict ==
    IdentityRejected =>
        /\ auth_error[1].cause = "duplicate_email" =>
              /\ uresponse.status = 409
              /\ Len(store_calls) = 1
              /\ store_calls[1].call = "auth.create_user"
              /\ cu_user_id = None
        /\ auth_error[1].cause = "other" => uresponse.status = 500

\* the email was registered, the directory said so and the caller got 409
C22_Witness ==
    /\ IdentityRejected
    /\ EmailRegistered(cu_email[1])
    /\ auth_error[1].cause = "duplicate_email"
    /\ uresponse.status = 409

(* ---------------------------- verify_token ---------------------------- *)
Tokens == {"t1", "t2"}

\* the users the identity store may hold for a token; a metadata map that
\* is None or empty is falsy, so `user.user_metadata or {}` gives {}
SessionUsers ==
    [id : {1, 2}, email : {None, Some("a@x")},
     user_metadata : {None, Some(<<>>), Some([name |-> <<"N">>])},
     app_metadata : {None, Some([provider |-> "email"])}]

OrEmpty(md) == IF md = None \/ md = Some(<<>>) THEN <<>> ELSE md[1]

\* the dict verify_token returns
UserInfo(user) ==
    [id |-> user.id, email |-> user.email,
     user_metadata |-> OrEmpty(user.user_metadata),
     app_metadata |-> OrEmpty(user.app_metadata)]

Last(chain) == chain[Len(chain)]

HTTPException(code) == [type |-> "HTTPException", status_code |-> code]
\* the exceptions a call of the client library may raise
LibraryErrors == {[type |-> "JWTError", status_code |-> 0],
                  [type |-> "Exception", status_code |-> 0]}

\* the handler of the inner try: `except Exception` takes every exception
InnerHandler(exc) == HTTPException(401)

\* the handlers of the outer try, tried in order: `except JWTError`, then
\* `except Exception`, which also takes an HTTPException
OuterHandler(exc) ==
    IF exc.type = "JWTError" THEN HTTPException(401) ELSE HTTPException(500)

authFrame == <<assignVars, balVars, metaVars, pageVars, userVars, inviteVars,
              waitVars, mailVars, parseVars, bulkVars>>

InitAuth ==
    /\ sessions \in [Tokens -> {None} \cup {Some(u) : u \in SessionUsers}]
    /\ token = ""
    /\ auth_pc = "idle"
    /\ auth_exc = None
    /\ auth_result = [status |-> 0, user |-> None]
    /\ credit_balance = <<>>
    /\ IdleAssign
    /\ IdleBalances
    /\ IdleMeta
    /\ IdlePages
    /\ IdleUsers
    /\ IdleInvite
    /\ IdleWait
    /\ IdleMail
    /\ IdleParse
    /\ IdleBulk

\* a request carries a bearer token
VtReceive ==
    /\ auth_pc = "idle"
    /\ \E t \in Tokens : token' = t
    /\ auth_pc' = "client"
    /\ auth_exc' = None
    /\ auth_result' = [status |-> 0, user |-> None]
    /\ UNCHANGED <<sessions, authFrame>>

\* get_supabase_admin() answers
VtGetClient ==
    /\ auth_pc = "client"
    /\ auth_pc' = "get_user"
    /\ UNCHANGED <<sessions, token, auth_exc, auth_result, authFrame>>

\* get_supabase_admin() raises, inside the outer try only
VtGetClientRaises ==
    /\ auth_pc = "client"
    /\ \E e \in LibraryErrors : auth_exc' = <<e>>
    /\ auth_pc' = "outer_except"
    /\ UNCHANGED <<sessions, token, auth_result, authFrame>>

\* auth.get_user(token) answers: the user is returned, or `not user` raises
\* HTTPException(401) inside the inner try
VtGetUser ==
    /\ auth_pc = "get_user"
    /\ LET user == sessions[token] IN
          IF user = None
          THEN /\ auth_exc' = <<HTTPException(401)>>
               /\ auth_pc' = "inner_except"
               /\ UNCHANGED auth_result
          ELSE /\ auth_result' = [status |-> 200, user |-> Some(UserInfo(user[1]))]
               /\ auth_pc' = "done"
               /\ UNCHANGED auth_exc
    /\ UNCHANGED <<sessions, token, authFrame>>

\* auth.get_user(token) raises inside the inner try
VtGetUserRaises ==
    /\ auth_pc = "get_user"
    /\ \E e \in LibraryErrors : auth_exc' = <<e>>
    /\ auth_pc' = "inner_except"
    /\ UNCHANGED <<sessions, token, auth_result, authFrame>>

\* the inner handler raises its own exception, still inside the outer try
VtInnerExcept ==
    /\ auth_pc = "inner_except"
    /\ auth_exc' = Append(auth_exc, InnerHandler(Last(auth_exc)))
    /\ auth_pc' = "outer_except"
    /\ UNCHANGED <<sessions, token, auth_result, authFrame>>

\* the outer handler raises the exception the framework turns into the
\* response
VtOuterExcept ==
    /\ auth_pc = "outer_except"
    /\ auth_exc' = Append(auth_exc, OuterHandler(Last(auth_exc)))
    /\ auth_result' = [status |-> OuterHandler(Last(auth_exc)).status_code,
                       user |-> None]
    /\ auth_pc' = "done"
    /\ UNCHANGED <<sessions, token, authFrame>>

\* the response is sent; the next request may come
VtReturn ==
    /\ auth_pc = "done"
    /\ auth_pc' = "idle"
    /\ UNCHANGED <<sessions, token, auth_exc, auth_result, authFrame>>

NextAuth ==
    \/ VtReceive
    \/ VtGetClient
    \/ VtGetClientRaises
    \/ VtGetUser
    \/ VtGetUserRaises
    \/ VtInnerExcept
    \/ VtOuterExcept
    \/ VtReturn

SpecAuth == InitAuth /\ [][NextAuth]_vars

\* the identity store did not resolve the token of the request that ended:
\* the lookup raised, or returned no user
Unresolved ==
    /\ auth_pc = "done"
    /\ auth_result.user = None
    /\ Len(auth_exc) = 3

\* C21: a bearer token the identity store does not resolve to a user (the
\* lookup raises, or returns no user) is answered with status 401 and with
\* no other status.
C21_UnresolvedIs401 == Unresolved => auth_result.status = 401

(* ----------------------- generate_invite_codes ------------------------ *)
MaxCount == 2
\* k of random.choices
CodeLen == 5

Digits == <<"0","1","2","3","4","5","6","7","8","9">>
\* string.ascii_uppercase + string.digits
Alphabet == Upper \o Digits
\* the positions of the population random.choices draws here: its first
\* and its last character
DrawnIndices == {1, Len(Alphabet)}

\* ''.join(chars)
RECURSIVE Join(_)
Join(chars) == IF chars = <<>> THEN "" ELSE Head(chars) \o Join(Tail(chars))

\* the lists random.choices(population, k=k) may return
Choices(population, k) ==
    {[j \in 1..k |-> population[f[j]]] : f \in [1..k -> DrawnIndices]}

\* f"NA{''.join(...)}"
NewCode_bare(chars) == Join(chars)
NewCode(chars) == "NA" \o Join(chars)

\* the dict appended to code_data
CodeData(code, max_uses, expires_in_days) ==
    [code |-> code, is_used |-> FALSE, max_uses |-> max_uses, current_uses |-> 0,
     expires_at |-> expires_in_days, email_sent_to |-> <<>>]

\* the row the store makes of an inserted dict: id and the column defaults
StoredCode(id, data) ==
    [id |-> id, code |-> data.code, is_used |-> data.is_used, used_by |-> None,
     max_uses |-> data.max_uses, current_uses |-> data.current_uses,
     expires_at |-> data.expires_at, is_archived |-> FALSE]

\* insert(code_data): one statement, all rows or none
InsertAll(table, data) ==
    table \o [j \in 1..Len(data) |-> StoredCode(Len(table) + j, data[j])]

\* the unique constraint on code rejects the batch
UniqueViolation(table, data) ==
    \/ \E i, j \in 1..Len(data) : i # j /\ data[i].code = data[j].code
    \/ \E i \in 1..Len(data), r \in 1..Len(table) : data[i].code = table[r].code

\* the call of POST /invite-codes/generate with its defaults, and calls
\* with other arguments
GenerateRequests ==
    {[count |-> 1, max_uses |-> 1, expires_in_days |-> 30]}
    \cup [count : 0..MaxCount, max_uses : {2}, expires_in_days : {7}]

\* rows the table may hold before the call; a code the call may draw again
ExistingCodes ==
    {<<>>,
     <<[StoredCode(1, CodeData("NA99999", 1, 30)) EXCEPT
          !.is_used = TRUE, !.used_by = Some(1), !.current_uses = 1]>>,
     <<StoredCode(1, CodeData("NAB2C3D", 2, 7)),
       [StoredCode(2, CodeData("NAAAAAA", 1, 30)) EXCEPT !.is_archived = TRUE]>>}

inviteFrame == <<assignVars, balVars, metaVars, pageVars, userVars, authVars,
                waitVars, mailVars, parseVars, bulkVars>>

InitGenerate ==
    /\ invite_codes \in ExistingCodes
    /\ ic_pc = "idle"
    /\ ic_arg = [count |-> 0, max_uses |-> 0, expires_in_days |-> 0]
    /\ ic_codes = <<>>
    /\ ic_code_data = <<>>
    /\ ic_before = <<>>
    /\ ic_result = [status |-> "none", codes |-> <<>>]
    /\ ic_log = <<>>
    /\ credit_balance = <<>>
    /\ IdleAssign
    /\ IdleBalances
    /\ IdleMeta
    /\ IdlePages
    /\ IdleUsers
    /\ IdleAuth
    /\ IdleWait
    /\ IdleMail
    /\ IdleParse
    /\ IdleBulk

\* generate_invite_codes(count, max_uses, expires_in_days) is called
GenStart ==
    /\ ic_pc = "idle" /\ ic_result.status = "none"
    /\ \E r \in GenerateRequests : ic_arg' = r
    /\ ic_before' = invite_codes
    /\ ic_codes' = <<>>
    /\ ic_code_data' = <<>>
    /\ ic_pc' = "loop"
    /\ UNCHANGED <<invite_codes, ic_result, ic_log, inviteFrame>>

\* one iteration of `for _ in range(count)`
GenDraw ==
    /\ ic_pc = "loop" /\ Len(ic_codes) < ic_arg.count
    /\ \E chars \in Choices(Alphabet, CodeLen) :
          LET code == NewCode(chars) IN
             /\ ic_codes' = Append(ic_codes, code)
             /\ ic_code_data' = Append(ic_code_data,
                   CodeData(code, ic_arg.max_uses, ic_arg.expires_in_days))
    /\ UNCHANGED <<invite_codes, ic_pc, ic_arg, ic_before, ic_result, ic_log,
                   inviteFrame>>

\* the loop ends
GenLoopEnd ==
    /\ ic_pc = "loop" /\ Len(ic_codes) >= ic_arg.count
    /\ ic_pc' = "insert"
    /\ UNCHANGED <<invite_codes, ic_arg, ic_codes, ic_code_data, ic_before,
                   ic_result, ic_log, inviteFrame>>

\* the batch insert answers: the codes are returned
GenInsert ==
    /\ ic_pc = "insert"
    /\ ~UniqueViolation(invite_codes, ic_code_data)
    /\ invite_codes' = InsertAll(invite_codes, ic_code_data)
    /\ ic_result' = [status |-> "returned", codes |-> ic_codes]
    /\ ic_pc' = "done"
    /\ UNCHANGED <<ic_arg, ic_codes, ic_code_data, ic_before, ic_log, inviteFrame>>

\* the batch insert raises (a uniqueness violation, or the store failing):
\* generate_invite_codes re-raises
GenInsertRaises ==
    /\ ic_pc = "insert"
    /\ ic_result' = [status |-> "raised", codes |-> <<>>]
    /\ ic_pc' = "done"
    /\ UNCHANGED <<invite_codes, ic_arg, ic_codes, ic_code_data, ic_before, ic_log,
                   inviteFrame>>

\* the call is over and its locals are gone
GenReturn ==
    /\ ic_pc = "done" /\ ic_result.status # "none" /\ ic_log = <<>>
    /\ ic_pc' = "idle"
    /\ ic_codes' = <<>>
    /\ ic_code_data' = <<>>
    /\ UNCHANGED <<invite_codes, ic_arg, ic_before, ic_result, ic_log, inviteFrame>>

NextGenerate ==
    \/ GenStart
    \/ GenDraw
    \/ GenLoopEnd
    \/ GenInsert
    \/ GenInsertRaises
    \/ GenReturn

SpecGenerate == InitGenerate /\ [][NextGenerate]_vars

\* ^NA[A-Z0-9]{5}$
WellFormed(code) ==
    /\ Len(code) = 7
    /\ SubSeq(code, 1, 2) = "NA"
    /\ \A i \in 3..7 : \E j \in 1..Len(Alphabet) : SubSeq(code, i, i) = Alphabet[j]

\* the rows the call added to the table
AddedRows == SubSeq(invite_codes, Len(ic_before) + 1, Len(invite_codes))

\* C23: generate_invite_codes(count, ...) returns exactly count codes, each
\* 'NA' followed by exactly 5 characters of A-Z and 0-9, and stores exactly
\* one row per returned code with is_used false and current_uses 0; when
\* the batch insert fails the call fails, returns no codes and no row of
\* the batch is stored.
C23_GenerateBatch ==
    ic_result.status # "none" =>
        /\ SubSeq(invite_codes, 1, Len(ic_before)) = ic_before
        /\ ic_result.status = "returned" =>
              /\ Len(ic_result.codes) = ic_arg.count
              /\ \A i \in 1..Len(ic_result.codes) : WellFormed(ic_result.codes[i])
              /\ Len(AddedRows) = Len(ic_result.codes)
              /\ \A i \in 1..Len(AddedRows) :
                    /\ AddedRows[i].code = ic_result.codes[i]
                    /\ AddedRows[i].is_used = FALSE
                    /\ AddedRows[i].current_uses = 0
        /\ ic_result.status = "raised" =>
              /\ ic_result.codes = <<>>
              /\ invite_codes = ic_before

\* a batch of MaxCount codes was stored
C23_Witness ==
    /\ ic_result.status = "returned"
    /\ Len(ic_result.codes) = MaxCount
    /\ Len(ic_before) > 0
    /\ Len(invite_codes) = Len(ic_before) + MaxCount

\* a batch that drew a code of the table was rejected as a whole
C23_WitnessRejected ==
    /\ ic_result.status = "raised"
    /\ ic_pc = "done"
    /\ UniqueViolation(invite_codes, ic_code_data)

(* ------------------- archive, unarchive, bulk archive ------------------ *)
NumCodes == 2
\* the ids a request may name: the rows of the table and one id without a row
CodeIds == 1..(NumCodes + 1)

\* update({"is_archived": value}).eq("id", code_id)
SetArchived_every(table, code_id, value) ==
    [j \in 1..Len(table) |-> [table[j] EXCEPT !.is_archived = value]]
SetArchived(table, code_id, value) ==
    [j \in 1..Len(table) |->
        IF table[j].id = code_id THEN [table[j] EXCEPT !.is_archived = value]
        ELSE table[j]]

\* update({"is_archived": True}).eq("is_used", True).eq("is_archived", False):
\* the table after it
ArchiveUsed_every(table) ==
    [j \in 1..Len(table) |-> [table[j] EXCEPT !.is_archived = TRUE]]
ArchiveUsed(table) ==
    [j \in 1..Len(table) |->
        IF table[j].is_used /\ ~table[j].is_archived
        THEN [table[j] EXCEPT !.is_archived = TRUE]
        ELSE table[j]]

\* the rows that update matches, in table order
RECURSIVE MatchingRows(_)
MatchingRows(table) ==
    IF table = <<>> THEN <<>>
    ELSE (IF table[1].is_used /\ ~table[1].is_archived THEN <<table[1]>> ELSE <<>>)
         \o MatchingRows(Tail(table))

\* response.data of that update: the rows it changed, as they are now
UpdatedRows(table) ==
    [j \in 1..Len(MatchingRows(table)) |->
        [MatchingRows(table)[j] EXCEPT !.is_archived = TRUE]]

\* len(response.data) if response.data else 0
CountOf(data) == IF data # <<>> THEN Len(data) ELSE 0

ArchiveCall(name, code_id, raised, before, after, count) ==
    [op |-> name, code_id |-> code_id, raised |-> raised, before |-> before,
     after |-> after, count |-> count]

\* the log keeps the two calls that ended last
Logged(log, call) ==
    IF Len(log) < 2 THEN Append(log, call) ELSE <<log[2], call>>

\* the rows the table may hold: usage is written by another service
CodeRows(id) ==
    {[id |-> id, code |-> "NA0000" \o ToString(id), is_used |-> u,
      used_by |-> IF u THEN Some(id) ELSE None, max_uses |-> 1,
      current_uses |-> IF u THEN 1 ELSE 0, expires_at |-> 30, is_archived |-> a] :
        u \in BOOLEAN, a \in BOOLEAN}

InitArchive ==
    /\ invite_codes \in {t \in [1..NumCodes -> UNION {CodeRows(i) : i \in 1..NumCodes}] :
                            \A i \in 1..NumCodes : t[i].id = i}
    /\ ic_pc = "idle"
    /\ ic_arg = [count |-> 0, max_uses |-> 0, expires_in_days |-> 0]
    /\ ic_codes = <<>>
    /\ ic_code_data = <<>>
    /\ ic_before = <<>>
    /\ ic_result = [status |-> "none", codes |-> <<>>]
    /\ ic_log = <<>>
    /\ credit_balance = <<>>
    /\ IdleAssign
    /\ IdleBalances
    /\ IdleMeta
    /\ IdlePages
    /\ IdleUsers
    /\ IdleAuth
    /\ IdleWait
    /\ IdleMail
    /\ IdleParse
    /\ IdleBulk

archiveRest == <<ic_pc, ic_arg, ic_codes, ic_code_data, ic_before, ic_result,
                 inviteFrame>>

\* archive_invite_code(code_id): the update answers
ArchiveInviteCode ==
    /\ \E code_id \in CodeIds :
          /\ invite_codes' = SetArchived(invite_codes, code_id, TRUE)
          /\ ic_log' = Logged(ic_log, ArchiveCall("archive", code_id, FALSE,
                invite_codes, invite_codes', 0))
    /\ UNCHANGED archiveRest

\* unarchive_invite_code(code_id): the update answers
UnarchiveInviteCode ==
    /\ \E code_id \in CodeIds :
          /\ invite_codes' = SetArchived(invite_codes, code_id, FALSE)
          /\ ic_log' = Logged(ic_log, ArchiveCall("unarchive", code_id, FALSE,
                invite_codes, invite_codes', 0))
    /\ UNCHANGED archiveRest

\* either update raises: the function re-raises
ArchiveRaises ==
    /\ \E name \in {"archive", "unarchive"}, code_id \in CodeIds :
          ic_log' = Logged(ic_log, ArchiveCall(name, code_id, TRUE,
                invite_codes, invite_codes, 0))
    /\ UNCHANGED <<invite_codes, archiveRest>>

\* bulk_archive_used_codes(): the update answers with the rows it changed
BulkArchiveUsedCodes ==
    /\ invite_codes' = ArchiveUsed(invite_codes)
    /\ ic_log' = Logged(ic_log, ArchiveCall("bulk_archive_used", 0, FALSE,
          invite_codes, invite_codes', CountOf(UpdatedRows(invite_codes))))
    /\ UNCHANGED archiveRest

\* bulk_archive_used_codes(): the update raises
BulkArchiveUsedCodesRaises ==
    /\ ic_log' = Logged(ic_log, ArchiveCall("bulk_archive_used", 0, TRUE,
          invite_codes, invite_codes, 0))
    /\ UNCHANGED <<invite_codes, archiveRest>>

NextArchive ==
    \/ ArchiveInviteCode
    \/ UnarchiveInviteCode
    \/ ArchiveRaises
    \/ BulkArchiveUsedCodes
    \/ BulkArchiveUsedCodesRaises

SpecArchive == InitArchive /\ [][NextArchive]_vars

LastLogged == ic_log[Len(ic_log)]
Completed(call, name) == call.op = name /\ ~call.raised
SameRows(call) == DOMAIN call.after = DOMAIN call.before

\* the rows of a table that are used and not archived
UsedUnarchived(table) ==
    {j \in 1..Len(table) : table[j].is_used /\ ~table[j].is_archived}

\* C24: after bulk_archive_used_codes completes, every row with is_used =
\* true has is_archived = true, every row with is_used = false is
\* unchanged, and the count returned is the number of rows that had
\* is_used = true and is_archived = false before the call; a second call
\* in a row returns 0.
C24_BulkArchiveUsed ==
    /\ (ic_log # <<>> /\ Completed(LastLogged, "bulk_archive_used")) =>
          LET call == LastLogged IN
             /\ SameRows(call)
             /\ \A j \in 1..Len(call.after) :
                   /\ call.after[j].is_used => call.after[j].is_archived
                   /\ ~call.before[j].is_used => call.after[j] = call.before[j]
                   /\ call.after[j].is_used = call.before[j].is_used
             /\ call.count = Cardinality(UsedUnarchived(call.before))
             /\ invite_codes = call.after
    /\ (/\ Len(ic_log) = 2
        /\ Completed(ic_log[1], "bulk_archive_used")
        /\ Completed(ic_log[2], "bulk_archive_used")) => ic_log[2].count = 0

\* a completed call archived a used row and left an unused row alone
C24_Witness ==
    /\ ic_log # <<>>
    /\ Completed(LastLogged, "bulk_archive_used")
    /\ LastLogged.count > 0
    /\ \E j \in 1..Len(invite_codes) :
          ~invite_codes[j].is_used /\ ~invite_codes[j].is_archived

\* row j of `after` is row j of `before` with is_archived set to value
OnlyArchivedSet(before, after, j, value) ==
    /\ after[j].is_archived = value
    /\ \A field \in DOMAIN before[j] \ {"is_archived"} :
          after[j][field] = before[j][field]

NumWaitlist == 2

\* request.user_ids: absent, empty, or a list of ids (of rows, repeated, or
\* of no row)
ArchiveRequests ==
    {None, Some(<<>>)}
    \cup {Some(<<i>>) : i \in 1..(NumWaitlist + 1)}
    \cup {Some(<<i, j>>) : i, j \in 1..(NumWaitlist + 1)}

\* `if request.user_ids:` a list that is absent or empty is falsy
Truthy(user_ids) == user_ids # None /\ user_ids[1] # <<>>

\* the filter the query ends with
Selected_ignore_archived(row, user_ids) ==
    IF Truthy(user_ids) THEN \E k \in 1..Len(user_ids[1]) : row.id = user_ids[1][k]
    ELSE row.is_notified
Selected(row, user_ids) ==
    /\ IF Truthy(user_ids)
       THEN \E k \in 1..Len(user_ids[1]) : row.id = user_ids[1][k]
       ELSE row.is_notified
    /\ ~row.is_archived

\* the table after update({"is_archived": True}) with that filter
ArchiveSelected(table, user_ids) ==
    [j \in 1..Len(table) |->
        IF Selected(table[j], user_ids) THEN [table[j] EXCEPT !.is_archived = TRUE]
        ELSE table[j]]

\* response.data: the rows the update changed
RECURSIVE SelectedRows(_, _)
SelectedRows(table, user_ids) ==
    IF table = <<>> THEN <<>>
    ELSE (IF Selected(table[1], user_ids)
          THEN <<[table[1] EXCEPT !.is_archived = TRUE]>> ELSE <<>>)
         \o SelectedRows(Tail(table), user_ids)

WaitlistRows(id) ==
    {[id |-> id, email |-> EmailOfId(id), is_notified |-> n, is_archived |-> a] :
        n \in BOOLEAN, a \in BOOLEAN}

waitFrame == <<assignVars, balVars, metaVars, pageVars, userVars, authVars,
               inviteVars, mailVars, parseVars, bulkVars>>

InitWaitlist ==
    /\ waitlist_users \in
          {t \in [1..NumWaitlist -> UNION {WaitlistRows(i) : i \in 1..NumWaitlist}] :
              \A i \in 1..NumWaitlist : t[i].id = i}
    /\ wl_call = None
    /\ credit_balance = <<>>
    /\ IdleAssign
    /\ IdleBalances
    /\ IdleMeta
    /\ IdlePages
    /\ IdleUsers
    /\ IdleAuth
    /\ IdleInvite
    /\ IdleMail
    /\ IdleParse
    /\ IdleBulk

\* the update answers: 200 with archived_count
ArchiveWaitlistUsers ==
    /\ \E user_ids \in ArchiveRequests :
          LET data == SelectedRows(waitlist_users, user_ids) IN
             /\ waitlist_users' = ArchiveSelected(waitlist_users, user_ids)
             /\ wl_call' = Some([user_ids |-> user_ids, before |-> waitlist_users,
                                 after |-> waitlist_users',
                                 status |-> 200, archived_count |-> CountOf(data)])
    /\ UNCHANGED waitFrame

\* the update raises: 500 "Failed to archive waitlist users"
ArchiveWaitlistUsersRaises ==
    /\ \E user_ids \in ArchiveRequests :
          wl_call' = Some([user_ids |-> user_ids, before |-> waitlist_users,
                           after |-> waitlist_users,
                           status |-> 500, archived_count |-> 0])
    /\ UNCHANGED <<waitlist_users, waitFrame>>

\* the mailing service marks a row as notified
WaitlistNotified ==
    /\ \E j \in 1..Len(waitlist_users) :
          /\ ~waitlist_users[j].is_notified
          /\ waitlist_users' = [waitlist_users EXCEPT ![j].is_notified = TRUE]
    /\ UNCHANGED <<wl_call, waitFrame>>

NextWaitlist ==
    \/ ArchiveWaitlistUsers
    \/ ArchiveWaitlistUsersRaises
    \/ WaitlistNotified

SpecWaitlist == InitWaitlist /\ [][NextWaitlist]_vars

\* the ids a request lists
RequestedIds(user_ids) == {user_ids[1][k] : k \in 1..Len(user_ids[1])}

\* the rows of `before` the claim says the request changes
ToArchive(before, user_ids) ==
    IF user_ids = None \/ user_ids[1] = <<>>
    THEN {j \in 1..Len(before) : before[j].is_notified /\ ~before[j].is_archived}
    ELSE {j \in 1..Len(before) :
             before[j].id \in RequestedIds(user_ids) /\ ~before[j].is_archived}

\* C26: POST /waitlist/archive with an empty or absent user_ids list sets
\* is_archived = true on exactly the rows with is_notified = true and
\* is_archived = false; with a non-empty list, on exactly the rows whose
\* id is in the list and is_archived = false, whatever their is_notified;
\* all other rows are unchanged and archived_count is the number of rows
\* changed.
C26_ArchiveWaitlist ==
    (wl_call # None /\ wl_call[1].status = 200) =>
        LET call == wl_call[1]
            before == call.before
            after == call.after
        IN /\ Len(after) = Len(before)
           /\ \A j \in 1..Len(before) :
                 IF j \in ToArchive(before, call.user_ids)
                 THEN /\ after[j].is_archived
                      /\ after[j].id = before[j].id
                      /\ after[j].email = before[j].email
                      /\ after[j].is_notified = before[j].is_notified
                 ELSE after[j] = before[j]
           /\ call.archived_count = Cardinality(ToArchive(before, call.user_ids))

\* a request listing a row that was not notified archived it, and left a
\* notified row that it did not list
C26_Witness ==
    /\ wl_call # None /\ wl_call[1].status = 200
    /\ Truthy(wl_call[1].user_ids)
    /\ wl_call[1].archived_count = 1
    /\ waitlist_users = wl_call[1].after
    /\ \E j \in 1..Len(waitlist_users) :
          /\ ~wl_call[1].before[j].is_notified /\ ~wl_call[1].before[j].is_archived
          /\ waitlist_users[j].is_archived
    /\ \E j \in 1..Len(waitlist_users) :
          waitlist_users[j].is_notified /\ ~waitlist_users[j].is_archived

(* --------------------------- send_bulk_email -------------------------- *)
MaxRecipients == 3
\* user_profiles holds one row per id, in this order
ProfileIds == 1..MaxRecipients

\* the query on user_profiles: every row, or the rows in_ selected_user_ids
\* when the list is not empty
RECURSIVE SelectProfiles(_, _)
SelectProfiles(ids, selected) ==
    IF ids = <<>> THEN <<>>
    ELSE (IF selected = None \/ selected[1] = {} \/ ids[1] \in selected[1]
          THEN <<[user_id |-> ids[1]]>> ELSE <<>>)
         \o SelectProfiles(Tail(ids), selected)

\* {user.id: user.email for user in users if user.email and user.id in user_ids}
UserIdToEmail(dir, user_ids) ==
    [u \in {v \in DOMAIN dir : dir[v] # None /\ v \in user_ids} |-> dir[u][1]]

\* the counters after one profile was handled
Counted_successes_only(counts, who, outcome) ==
    IF outcome = "sent"
    THEN [counts EXCEPT !.success_count = counts.success_count + 1]
    ELSE counts
Counted(counts, who, outcome) ==
    IF outcome = "sent"
    THEN [counts EXCEPT !.success_count = counts.success_count + 1]
    ELSE [counts EXCEPT !.error_count = counts.error_count + 1,
                        !.errors = Append(counts.errors, who \o ": " \o
                            (IF outcome = "no_email" THEN "No email found"
                             ELSE IF outcome = "send_false" THEN "Failed to send"
                             ELSE "SMTP error"))]

mailFrame == <<assignVars, balVars, metaVars, pageVars, userVars, authVars,
               inviteVars, waitVars, parseVars, bulkVars>>

InitBulkEmail ==
    /\ be_selected \in {None} \cup {Some(S) : S \in SUBSET (1..(MaxRecipients + 1))}
    /\ be_directory \in [ProfileIds -> {None}
                                       \cup {Some(EmailOfId(i)) : i \in ProfileIds}]
    /\ \A i \in ProfileIds : be_directory[i] \in {None, Some(EmailOfId(i))}
    /\ be_pc = "idle"
    /\ be_profiles = <<>>
    /\ be_emails = <<>>
    /\ be_index = 0
    /\ be_counts = [success_count |-> 0, error_count |-> 0, errors |-> <<>>]
    /\ be_attempts = <<>>
    /\ be_result = [status |-> "none", total |-> 0, success_count |-> 0,
                    error_count |-> 0, errors |-> None]
    /\ credit_balance = <<>>
    /\ IdleAssign
    /\ IdleBalances
    /\ IdleMeta
    /\ IdlePages
    /\ IdleUsers
    /\ IdleAuth
    /\ IdleInvite
    /\ IdleWait
    /\ IdleParse
    /\ IdleBulk

Failed == [status |-> "raised", total |-> 0, success_count |-> 0,
           error_count |-> 0, errors |-> None]

\* the query on user_profiles answers; no row raises ValueError
BeReadProfiles ==
    /\ be_pc = "idle" /\ be_result.status = "none"
    /\ LET data == SelectProfiles([i \in ProfileIds |-> i], be_selected) IN
          /\ be_profiles' = data
          /\ IF data = <<>>
             THEN be_pc' = "done" /\ be_result' = Failed
             ELSE be_pc' = "list" /\ UNCHANGED be_result
    /\ UNCHANGED <<be_selected, be_directory, be_emails, be_index, be_counts,
                   be_attempts, mailFrame>>

\* the query on user_profiles raises
BeReadProfilesRaises ==
    /\ be_pc = "idle" /\ be_result.status = "none"
    /\ be_pc' = "done"
    /\ be_result' = Failed
    /\ UNCHANGED <<be_selected, be_directory, be_profiles, be_emails, be_index,
                   be_counts, be_attempts, mailFrame>>

\* auth.admin.list_users() answers
BeListUsers ==
    /\ be_pc = "list"
    /\ be_emails' = UserIdToEmail(be_directory,
          {be_profiles[j].user_id : j \in 1..Len(be_profiles)})
    /\ be_pc' = "loop"
    /\ UNCHANGED <<be_selected, be_directory, be_profiles, be_index, be_counts,
                   be_attempts, be_result, mailFrame>>

\* auth.admin.list_users() raises
BeListUsersRaises ==
    /\ be_pc = "list"
    /\ be_pc' = "done"
    /\ be_result' = Failed
    /\ UNCHANGED <<be_selected, be_directory, be_profiles, be_emails, be_index,
                   be_counts, be_attempts, mailFrame>>

\* one iteration of the loop ended with `outcome` for the profile at hand
Handled(outcome) ==
    LET user_id == be_profiles[be_index + 1].user_id
        who == IF outcome = "no_email" THEN "User " \o ToString(user_id)
               ELSE be_emails[user_id]
    IN /\ be_counts' = Counted(be_counts, who, outcome)
       /\ be_attempts' = Append(be_attempts, [user_id |-> user_id, outcome |-> outcome])
       /\ be_index' = be_index + 1
       /\ UNCHANGED <<be_selected, be_directory, be_pc, be_profiles, be_emails,
                      be_result, mailFrame>>

\* the profile has no email in user_id_to_email: counted, `continue`
BeNoEmail ==
    /\ be_pc = "loop" /\ be_index < Len(be_profiles)
    /\ be_profiles[be_index + 1].user_id \notin DOMAIN be_emails
    /\ Handled("no_email")

\* send_email returns True, returns False, or raises
BeSendEmail ==
    /\ be_pc = "loop" /\ be_index < Len(be_profiles)
    /\ be_profiles[be_index + 1].user_id \in DOMAIN be_emails
    /\ \E outcome \in {"sent", "send_false", "send_raised"} : Handled(outcome)

\* the loop is over: the dict is returned
BeReturn ==
    /\ be_pc = "loop" /\ be_index >= Len(be_profiles)
    /\ be_result' = [status |-> "returned", total |-> Len(be_profiles),
                     success_count |-> be_counts.success_count,
                     error_count |-> be_counts.error_count,
                     errors |-> IF be_counts.errors # <<>>
                                THEN Some(be_counts.errors) ELSE None]
    /\ be_pc' = "done"
    /\ UNCHANGED <<be_selected, be_directory, be_profiles, be_emails, be_index,
                   be_counts, be_attempts, mailFrame>>

NextBulkEmail ==
    \/ BeReadProfiles
    \/ BeReadProfilesRaises
    \/ BeListUsers
    \/ BeListUsersRaises
    \/ BeNoEmail
    \/ BeSendEmail
    \/ BeReturn

SpecBulkEmail == InitBulkEmail /\ [][NextBulkEmail]_vars

\* the attempts made so far are for the first profiles, in order
AttemptsInTurn ==
    /\ Len(be_attempts) = be_index
    /\ be_index <= Len(be_profiles)
    /\ \A j \in 1..Len(be_attempts) : be_attempts[j].user_id = be_profiles[j].user_id

Failures == {j \in 1..Len(be_attempts) : be_attempts[j].outcome # "sent"}

\* C27: send_bulk_email attempts every selected profile in turn; a failure
\* for one recipient (no email in the directory, send returning false, send
\* raising) is counted and neither stops the attempts for the remaining
\* recipients nor fails the request; in the result success_count +
\* error_count = total = the number of selected profiles.
C27_EveryRecipientAttempted ==
    /\ AttemptsInTurn
    /\ (be_pc = "loop" /\ be_index < Len(be_profiles)) => be_result.status = "none"
    /\ (be_pc = "done" /\ Len(be_attempts) > 0) =>
          /\ be_result.status = "returned"
          /\ Len(be_attempts) = Len(be_profiles)
          /\ be_result.total = Len(be_profiles)
          /\ be_result.success_count + be_result.error_count = be_result.total
          /\ be_result.error_count = Cardinality(Failures)

\* each kind of failure happened, a later recipient was still sent to, and
\* the request returned
C27_Witness ==
    /\ be_pc = "done" /\ be_result.status = "returned"
    /\ Len(be_attempts) = MaxRecipients
    /\ be_attempts[1].outcome \in {"no_email", "send_false", "send_raised"}
    /\ be_attempts[2].outcome \in {"no_email", "send_false", "send_raised"}
    /\ be_attempts[1].outcome # be_attempts[2].outcome
    /\ be_attempts[MaxRecipients].outcome = "sent"

(* -------------------------- parse_email_text -------------------------- *)
MaxBodies == 2
MaxTextLen == 3

Char(str, i) == SubSeq(str, i, i)
\* \s of a regular expression, the characters str.strip() removes
IsSpace(c) == c \in {" ", "\n", "\t", "\r", "\f"}

\* str.strip()
RECURSIVE lstrip(_)
lstrip(str) ==
    IF Len(str) > 0 /\ IsSpace(Char(str, 1))
    THEN lstrip(SubSeq(str, 2, Len(str))) ELSE str
RECURSIVE rstrip(_)
rstrip(str) ==
    IF Len(str) > 0 /\ IsSpace(Char(str, Len(str)))
    THEN rstrip(SubSeq(str, 1, Len(str) - 1)) ELSE str
strip(str) == rstrip(lstrip(str))

Least(S) == CHOOSE x \in S : \A y \in S : x <= y
StartsWith(str, prefix) ==
    Len(str) >= Len(prefix) /\ SubSeq(str, 1, Len(prefix)) = prefix
\* where `sub` first occurs in str at or after position `from`; 0: nowhere
Find(str, sub, from) ==
    LET hits == {i \in from..(Len(str) - Len(sub) + 1) :
                    SubSeq(str, i, i + Len(sub) - 1) = sub}
    IN IF hits = {} THEN 0 ELSE Least(hits)

\* re.sub(r'^[^:]+:.*?\n\n?', '', text): from the start of the text through
\* the end of the line that holds the first colon, and one more newline
RemoveTitle(text) ==
    LET colon == Find(text, ":", 1)
        newline == IF colon = 0 THEN 0 ELSE Find(text, "\n", colon + 1)
    IN IF colon < 2 \/ newline = 0 THEN text
       ELSE LET stop == IF newline < Len(text) /\ Char(text, newline + 1) = "\n"
                        THEN newline + 1 ELSE newline
            IN SubSeq(text, stop + 1, Len(text))

RECURSIVE DropNewlines(_)
DropNewlines(str) ==
    IF Len(str) > 0 /\ Char(str, 1) = "\n"
    THEN DropNewlines(SubSeq(str, 2, Len(str))) ELSE str

\* re.split(r'\n\n+', str) for sep = "\n\n", re.split(r'\n+', str) for "\n"
RECURSIVE Split(_, _)
Split(str, sep) ==
    LET at == Find(str, sep, 1) IN
       IF at = 0 THEN <<str>>
       ELSE <<SubSeq(str, 1, at - 1)>>
            \o Split(DropNewlines(SubSeq(str, at, Len(str))), sep)

\* [p.strip() for p in parts if p.strip()]
RECURSIVE Stripped(_)
Stripped(parts) ==
    IF Len(parts) = 0 THEN <<>>
    ELSE (IF Len(strip(parts[1])) > 0 THEN <<strip(parts[1])>> ELSE <<>>)
         \o Stripped(Tail(parts))

\* list.pop(i), positions counted from 1
Pop(list, i) == SubSeq(list, 1, i - 1) \o SubSeq(list, i + 1, Len(list))

\* the first paragraph that passes Test; 0: none
FirstWhere(paragraphs, Test(_)) ==
    LET hits == {i \in 1..Len(paragraphs) : Test(paragraphs[i])}
    IN IF hits = {} THEN 0 ELSE Least(hits)

\* re.match of one of greeting_patterns, ignoring case
GreetingPattern(para) ==
    LET p == lower(para) IN
       \/ \E w \in {"greetings", "dear", "hello", "hi"} :
             /\ StartsWith(p, w) /\ Len(p) > Len(w)
             /\ IsSpace(Char(p, Len(w) + 1)) \/ Char(p, Len(w) + 1) = ","
       \/ \E w \in {"greetings from", "dear", "hello", "hi"} : StartsWith(p, w)

\* re.sub(r'^greetings from ', 'Greetings from ', greeting), ignoring case
CapitalGreeting(greeting) ==
    IF StartsWith(lower(greeting), "greetings from ")
    THEN "Greetings from " \o SubSeq(greeting, 16, Len(greeting))
    ELSE greeting

\* re.search(r'[.!?]\s', para)
SentenceEnd(para) ==
    \E i \in 1..(Len(para) - 1) :
        Char(para, i) \in {".", "!", "?"} /\ IsSpace(Char(para, i + 1))

\* lines 46-68: the greeting, and the paragraphs left
FindGreeting(paragraphs) ==
    LET at == FirstWhere(paragraphs, GreetingPattern) IN
       IF at # 0
       THEN [greeting |-> CapitalGreeting(paragraphs[at]),
             paragraphs |-> Pop(paragraphs, at)]
       ELSE IF Len(paragraphs) > 0 /\ Len(paragraphs[1]) < 100
               /\ ~SentenceEnd(paragraphs[1])
       THEN [greeting |-> paragraphs[1], paragraphs |-> Pop(paragraphs, 1)]
       ELSE [greeting |-> "Greetings from Helium,", paragraphs |-> paragraphs]

\* re.match of signoff_patterns, ignoring case
SignoffPattern(para) ==
    \E w \in {"thanks", "thank you", "best regards", "sincerely", "regards",
              "yours truly"} : StartsWith(lower(para), w)

\* re.search(r'(helium team|team|helium)', para), ignoring case
TeamLine(para) == In("team", lower(para)) \/ In("helium", lower(para))

\* re.search(r'(thanks.*?)(the helium team)', line), ignoring case: the two
\* groups, or None; `.` matches every character but the newline
TeamMatch(line) ==
    LET l == lower(line)
        Ends(i) == {j \in (i + 6)..(Len(l) - 14) :
                       /\ SubSeq(l, j, j + 14) = "the helium team"
                       /\ ~In("\n", SubSeq(l, i + 6, j - 1))}
        starts == {i \in 1..(Len(l) - 5) :
                      SubSeq(l, i, i + 5) = "thanks" /\ Ends(i) # {}}
    IN IF starts = {} THEN None
       ELSE LET i == Least(starts)
                j == Least(Ends(i))
            IN Some([group1 |-> SubSeq(line, i, j - 1),
                     group2 |-> SubSeq(line, j, j + 14)])

\* re.match(r'^[A-Z][a-z]+,\s*$', para)
NameAndComma(para) ==
    /\ Len(para) >= 3
    /\ \E i \in 1..Len(Upper) : Char(para, 1) = Upper[i]
    /\ \E comma \in 3..Len(para) :
          /\ Char(para, comma) = ","
          /\ \A k \in 2..(comma - 1) : \E i \in 1..Len(Lower) : Char(para, k) = Lower[i]
          /\ \A k \in (comma + 1)..Len(para) : IsSpace(Char(para, k))

\* lines 70-108: the signoff, and the paragraphs left
FindSignoff(paragraphs) ==
    LET at == FirstWhere(paragraphs, SignoffPattern)
        n == Len(paragraphs)
    IN IF at # 0
       THEN IF at + 1 <= n /\ TeamLine(paragraphs[at + 1])
            THEN [signoff |-> paragraphs[at] \o "<br>" \o paragraphs[at + 1],
                  paragraphs |-> Pop(Pop(paragraphs, at), at)]
            ELSE IF TeamMatch(paragraphs[at]) # None
            THEN [signoff |-> TeamMatch(paragraphs[at])[1].group1 \o "<br>"
                              \o TeamMatch(paragraphs[at])[1].group2,
                  paragraphs |-> Pop(paragraphs, at)]
            ELSE [signoff |-> paragraphs[at], paragraphs |-> Pop(paragraphs, at)]
       ELSE IF n > 0 /\ Len(paragraphs[n]) < 100
               /\ (SignoffPattern(paragraphs[n]) \/ NameAndComma(paragraphs[n]))
       THEN [signoff |-> paragraphs[n], paragraphs |-> Pop(paragraphs, n)]
       ELSE [signoff |-> "Thanks,<br>The Helium Team", paragraphs |-> paragraphs]

parse_email_text(text_content) ==
    IF Len(text_content) = 0 \/ Len(strip(text_content)) = 0
    THEN [status |-> "returned", greeting |-> "Greetings from Helium,",
          paragraphs |-> <<>>, signoff |-> "Thanks,<br>The Helium Team"]
    ELSE LET cleaned_content == strip(RemoveTitle(text_content))
             by_blank_lines == Stripped(Split(cleaned_content, "\n\n"))
             paragraphs == IF Len(by_blank_lines) = 0
                           THEN Stripped(Split(cleaned_content, "\n"))
                           ELSE by_blank_lines
             found == FindGreeting(paragraphs)
             rest == FindSignoff(found.paragraphs)
         IN [status |-> "returned", greeting |-> found.greeting,
             paragraphs |-> rest.paragraphs, signoff |-> rest.signoff]

\* every text of at most n of these characters
TextChars == {"a", ":", "\n", " "}
RECURSIVE TextsUpTo(_)
TextsUpTo(n) ==
    IF n = 0 THEN {""}
    ELSE TextsUpTo(n - 1)
         \cup {t \o c : t \in {u \in TextsUpTo(n - 1) : Len(u) = n - 1},
                        c \in TextChars}

\* texts written as the templates write them: a greeting paragraph, body
\* paragraphs and the final paragraph, separated by blank lines
GreetingParagraphs ==
    {"Hello,", "Hi team,", "Greetings from Helium,", "Dear user,", "Good morning"}
BodyParagraphs ==
    {"We are down. Back soon.", "Helium will be unavailable for 1 hour",
     "Note: maintenance at 5."}
FinalParagraph == "Thanks,\nThe Helium Team"
BodyLists == UNION {[1..n -> BodyParagraphs] : n \in 1..MaxBodies}

RECURSIVE JoinParagraphs(_)
JoinParagraphs(paragraphs) ==
    IF Len(paragraphs) = 0 THEN ""
    ELSE IF Len(paragraphs) = 1 THEN paragraphs[1]
    ELSE paragraphs[1] \o "\n\n" \o JoinParagraphs(Tail(paragraphs))

Written(greeting, bodies) ==
    [text |-> JoinParagraphs(<<greeting>> \o bodies \o <<FinalParagraph>>),
     parts |-> Some([greeting |-> greeting, bodies |-> bodies])]

EmailTexts ==
    {Written(g, b) : g \in GreetingParagraphs, b \in BodyLists}
    \cup {[text |-> t, parts |-> None] : t \in TextsUpTo(MaxTextLen)}

parseFrame == <<assignVars, balVars, metaVars, pageVars, userVars, authVars,
                inviteVars, waitVars, mailVars, bulkVars>>

InitParse ==
    /\ \E sample \in EmailTexts :
          /\ pe_text = sample.text
          /\ pe_parts = sample.parts
    /\ pe_pc = "idle"
    /\ pe_result = [status |-> "none", greeting |-> "", paragraphs |-> <<>>,
                    signoff |-> ""]
    /\ credit_balance = <<>>
    /\ IdleAssign
    /\ IdleBalances
    /\ IdleMeta
    /\ IdlePages
    /\ IdleUsers
    /\ IdleAuth
    /\ IdleInvite
    /\ IdleWait
    /\ IdleMail
    /\ IdleBulk

ParseEmailText ==
    /\ pe_pc = "idle"
    /\ pe_result' = parse_email_text(pe_text)
    /\ pe_pc' = "done"
    /\ UNCHANGED <<pe_text, pe_parts, parseFrame>>

NextParse == ParseEmailText

SpecParse == InitParse /\ [][NextParse]_vars

\* C28: parse_email_text never raises, whatever the text, and for a text
\* made of a greeting paragraph, body paragraphs and the final paragraph 'Thanks,'
\* newline 'The Helium Team' separated by blank lines, returns the greeting
\* paragraph as greeting, the body paragraphs as paragraphs, and the
\* signoff 'Thanks,<br>The Helium Team'.
C28_ParsedAsWritten ==
    pe_pc = "done" =>
        /\ pe_result.status = "returned"
        /\ pe_parts # None =>
              /\ pe_result.greeting = pe_parts[1].greeting
              /\ pe_result.paragraphs = pe_parts[1].bodies
              /\ pe_result.signoff = "Thanks,<br>The Helium Team"

(* -------------------------- bulk_delete_users -------------------------- *)
(* The stores are the ones delete_user works on: a delete may answer with  *)
(* an error value instead of raising, and auth.admin.delete_user may raise *)
(* although it deleted the identity (user_service.py, lines 349-350).      *)

\* the longest user_ids list
MaxBulk == 2

\* user_ids: ids of the directory and one id no identity has
IdLists == UNION {[1..n -> 1..(MaxIds + 1)] : n \in 0..MaxBulk}

bulkFrame == <<assignVars, metaVars, balRest, pageRest, userVars, authVars,
               inviteVars, waitVars, mailVars, parseVars>>

InitBulkDelete ==
    /\ \E n \in 0..MaxIds :
          /\ directory = [i \in 1..n |-> NewIdentity(i, "a@x", <<"F">>, <<>>)]
          /\ user_profiles = [i \in 1..n |-> ProfileData(<<"F">>, <<>>)]
    /\ cascade_delete \in BOOLEAN
    /\ bd_user_ids \in IdLists
    /\ bd_pc = "idle"
    /\ bd_index = 0
    /\ bd_calls = <<>>
    /\ bd_before = [directory |-> <<>>, user_profiles |-> <<>>]
    /\ bd_result = [status |-> "none", deleted_count |-> 0]
    /\ uop = "none"
    /\ upc = "idle"
    /\ cu_email = None
    /\ cu_user_id = None
    /\ du_user_id = 0
    /\ profile_error = "none"
    /\ store_calls = <<>>
    /\ uresponse = [status |-> 0, detail |-> "none"]
    /\ next_id = 1
    /\ auth_error = None
    /\ last_call = None
    /\ credit_balance = <<>>
    /\ credit_purchases = <<>>
    /\ auth_users = <<>>
    /\ waitlist = <<>>
    /\ lookup_fails = {}
    /\ gcb_user_id = None
    /\ gcb_pc = "idle"
    /\ gcb_result = <<>>
    /\ op = "none"
    /\ op_pc = "idle"
    /\ op_status = None
    /\ page = 0
    /\ all_auth_users = <<>>
    /\ list_calls = <<>>
    /\ resolved = [user_id_to_email |-> <<>>, user_id_to_name |-> <<>>]
    /\ op_result = <<>>
    /\ IdleAssign
    /\ IdleMeta
    /\ IdleAuth
    /\ IdleInvite
    /\ IdleWait
    /\ IdleMail
    /\ IdleParse

\* the `for user_id in user_ids` loop: the id in hand
CurrentId == bd_user_ids[bd_index + 1]

\* where the loop goes after the id in hand
AfterId(index) == IF index < Len(bd_user_ids) THEN "profile" ELSE "return"

\* the except of lines 399-401, and the one of users.py, lines 114-119
Raised == [status |-> "raised", deleted_count |-> 0]

\* get_supabase_admin answers
BdStart ==
    /\ bd_pc = "idle"
    /\ bd_before' = [directory |-> directory, user_profiles |-> user_profiles]
    /\ bd_pc' = AfterId(0)
    /\ UNCHANGED <<directory, user_profiles, bd_user_ids, bd_index, bd_calls,
                   bd_result, bulkFrame>>

\* get_supabase_admin raises
BdStartRaises ==
    /\ bd_pc = "idle"
    /\ bd_before' = [directory |-> directory, user_profiles |-> user_profiles]
    /\ bd_pc' = "failed"
    /\ bd_result' = Raised
    /\ UNCHANGED <<directory, user_profiles, bd_user_ids, bd_index, bd_calls,
                   bulkFrame>>

\* the delete on user_profiles answers: the row of the id, if there is one,
\* is gone (line 394)
BdDeleteProfile ==
    /\ bd_pc = "profile"
    /\ user_profiles' = Without(user_profiles, CurrentId)
    /\ bd_calls' = Append(bd_calls,
          StoreCall("user_profiles.delete", CurrentId, "deleted"))
    /\ bd_pc' = "auth"
    /\ UNCHANGED <<directory, bd_user_ids, bd_index, bd_before, bd_result,
                   bulkFrame>>

\* the delete on user_profiles answers with an error value: the response
\* is not looked at
BdDeleteProfileError ==
    /\ bd_pc = "profile"
    /\ bd_calls' = Append(bd_calls,
          StoreCall("user_profiles.delete", CurrentId, "error"))
    /\ bd_pc' = "auth"
    /\ UNCHANGED <<directory, user_profiles, bd_user_ids, bd_index, bd_before,
                   bd_result, bulkFrame>>

\* the delete on user_profiles raises
BdDeleteProfileRaises ==
    /\ bd_pc = "profile"
    /\ bd_calls' = Append(bd_calls,
          StoreCall("user_profiles.delete", CurrentId, "raised"))
    /\ bd_pc' = "failed"
    /\ bd_result' = Raised
    /\ UNCHANGED <<directory, user_profiles, bd_user_ids, bd_index, bd_before,
                   bulkFrame>>

\* auth.admin.delete_user answers, the identity is deleted (line 395)
BdDeleteIdentity ==
    /\ bd_pc = "auth"
    /\ InDirectory(CurrentId)
    /\ directory' = DirectoryAfterDelete(CurrentId)
    /\ user_profiles' = ProfilesAfterIdentityDelete(CurrentId)
    /\ bd_calls' = Append(bd_calls,
          StoreCall("auth.delete_user", CurrentId, "deleted"))
    /\ bd_index' = bd_index + 1
    /\ bd_pc' = AfterId(bd_index + 1)
    /\ UNCHANGED <<bd_user_ids, bd_before, bd_result, bulkFrame>>

\* auth.admin.delete_user answers with an error value, not found for an id
\* the directory does not have: the response is not looked at
BdDeleteIdentityError ==
    /\ bd_pc = "auth"
    /\ bd_calls' = Append(bd_calls,
          StoreCall("auth.delete_user", CurrentId,
                    IF InDirectory(CurrentId) THEN "error" ELSE "error_not_found"))
    /\ bd_index' = bd_index + 1
    /\ bd_pc' = AfterId(bd_index + 1)
    /\ UNCHANGED <<directory, user_profiles, bd_user_ids, bd_before, bd_result,
                   bulkFrame>>

\* auth.admin.delete_user raises: not found, or another error, the
\* identity deleted or not
BdDeleteIdentityRaises ==
    /\ bd_pc = "auth"
    /\ \/ /\ bd_calls' = Append(bd_calls,
                StoreCall("auth.delete_user", CurrentId,
                   IF InDirectory(CurrentId) THEN "raised" ELSE "raised_not_found"))
          /\ UNCHANGED <<directory, user_profiles>>
       \/ /\ InDirectory(CurrentId)
          /\ bd_calls' = Append(bd_calls,
                StoreCall("auth.delete_user", CurrentId, "raised_after_delete"))
          /\ directory' = DirectoryAfterDelete(CurrentId)
          /\ user_profiles' = ProfilesAfterIdentityDelete(CurrentId)
    /\ bd_pc' = "failed"
    /\ bd_result' = Raised
    /\ UNCHANGED <<bd_user_ids, bd_index, bd_before, bulkFrame>>

\* return len(user_ids)
BdReturn ==
    /\ bd_pc = "return"
    /\ bd_result' = [status |-> "returned", deleted_count |-> Len(bd_user_ids)]
    /\ bd_pc' = "done"
    /\ UNCHANGED <<directory, user_profiles, bd_user_ids, bd_index, bd_calls,
                   bd_before, bulkFrame>>

NextBulkDelete ==
    \/ BdStart
    \/ BdStartRaises
    \/ BdDeleteProfile
    \/ BdDeleteProfileError
    \/ BdDeleteProfileRaises
    \/ BdDeleteIdentity
    \/ BdDeleteIdentityError
    \/ BdDeleteIdentityRaises
    \/ BdReturn

SpecBulkDelete == InitBulkDelete /\ [][NextBulkDelete]_vars

(* ------------------- claims on bulk_delete_users ---------------------- *)
\* the ids at positions S of the list
IdsAt(S) == {bd_user_ids[i] : i \in S \cap (1..Len(bd_user_ids))}

\* the calls a run over the first k ids makes when none raises
CallOrder(i) ==
    [call |-> IF i % 2 = 1 THEN "user_profiles.delete" ELSE "auth.delete_user",
     user_id |-> bd_user_ids[(i + 1) \div 2]]

WasIdentity(uid) ==
    \E j \in 1..Len(bd_before.directory) : bd_before.directory[j].id = uid

FullyDeleted(uid) == ~InDirectory(uid) /\ uid \notin DOMAIN user_profiles

Untouched(uid) ==
    /\ InDirectory(uid) <=> WasIdentity(uid)
    /\ uid \in DOMAIN user_profiles <=> uid \in DOMAIN bd_before.user_profiles

RaisedOutcomes == {"raised", "raised_not_found", "raised_after_delete"}

\* C30: bulk_delete_users makes its store calls in list order, the profile
\* delete and then the identity delete of each id; it fails at the first
\* call that raises, and then every earlier id is fully deleted, the
\* identity of the failing id is still present if it was, and every later
\* id is untouched; when no call raises it returns len(user_ids) and every
\* id is fully deleted.
C30_BulkDeleteStopsAtFirstRaise ==
    /\ \A i \in 1..Len(bd_calls) :
          /\ bd_calls[i].call = CallOrder(i).call
          /\ bd_calls[i].user_id = CallOrder(i).user_id
          /\ i < Len(bd_calls) => bd_calls[i].outcome \notin RaisedOutcomes
    /\ bd_pc = "done" =>
          /\ bd_result = [status |-> "returned", deleted_count |-> Len(bd_user_ids)]
          /\ Len(bd_calls) = 2 * Len(bd_user_ids)
          /\ \A uid \in IdsAt(1..Len(bd_user_ids)) : FullyDeleted(uid)
    /\ (bd_pc = "failed" /\ Len(bd_calls) > 0) =>
          LET earlier == IdsAt(1..bd_index)
              failing == bd_user_ids[bd_index + 1]
              later == IdsAt((bd_index + 2)..Len(bd_user_ids))
          IN /\ bd_result.status = "raised"
             /\ bd_calls[Len(bd_calls)].outcome \in RaisedOutcomes
             /\ \A uid \in earlier : FullyDeleted(uid)
             /\ failing \notin earlier =>
                   (InDirectory(failing) <=> WasIdentity(failing))
             /\ \A uid \in later \ (earlier \cup {failing}) : Untouched(uid)

====
